---- MODULE Spec2Model ----
(***************************************************************************)
(* A model of protogen, the easyproto-gen code generator.                  *)
(*                                                                         *)
(* Text that the program splits, trims or converts (the value of the       *)
(* protobuf struct tag and everything cut out of it) is a sequence of      *)
(* one-character strings, so that strings.Split, strings.TrimSpace,        *)
(* strings.LastIndex and strconv.Atoi are computed character by character. *)
(* Identifiers the program only compares or concatenates (names in the     *)
(* Go AST, field names) are TLA+ strings.                                  *)
(***************************************************************************)
EXTENDS Integers, Sequences, FiniteSets, TLC

VARIABLES
    pc,      \* "idle" before the call, "done" after parseStruct returned
    input,   \* the struct declaration handed to parseStruct (a sequence of field declarations)
    info,    \* the *TypeInfo parseStruct returned (NilInfo for nil, else <<TypeInfo>>)
    err,     \* the error parseStruct or UnmarshalProtobuf returned (NoErr for nil)
    typeInfos, \* the descriptors the generated code was emitted from, by type name
    recv,    \* the name of the record type whose methods are called
    sent,    \* the value MarshalProtobuf was called on
    buffer,  \* the bytes in the buffer MarshalProtobuf was handed
    wire,    \* the bytes MarshalProtobuf returned
    decoded, \* the instance UnmarshalProtobuf filled
    flags,   \* the command line of the generator: -type (split), -output, -noheader
    entries, \* the entries of the directory, as os.ReadDir lists them
    files,   \* the files main retained
    pkgName, \* the package of the first file parsed
    mapOrder, \* the order in which the runtime walks the typeInfos map in this run
    genText, \* the buffer generateCode filled, then the formatted text
    outFile, \* the output file
    tmpFile, \* the temporary file of a formatting failure
    exitCode, \* the exit status of the generator, -1 while it runs
    tmplType, \* the wire type a template hands to the functions of its FuncMap
    tmplNames \* what those functions returned so far, by function

\* the state of a run of the generated code
codecVars == <<recv, sent, buffer, wire, decoded>>

\* the state of a run of the generator
mainVars == <<flags, entries, files, pkgName, mapOrder, genText, outFile, tmpFile, exitCode>>

\* the generator at rest
NoRun ==
    /\ flags = <<>> /\ entries = <<>> /\ files = <<>> /\ pkgName = "" /\ mapOrder = <<>>
    /\ genText = <<>> /\ outFile = <<>> /\ tmpFile = <<>> /\ exitCode = -1

\* the calls of a template
tmplVars == <<tmplType, tmplNames>>

\* no name was asked for
NoNames ==
    [appendFunc |-> [r \in BOOLEAN |-> <<>>], readFunc |-> <<>>, unpackFunc |-> <<>>,
     isLengthDelimited |-> <<>>]

\* no template runs
NoCall == tmplType = <<>> /\ tmplNames = NoNames

vars == <<pc, input, info, err, typeInfos, codecVars, mainVars, tmplVars>>

(***************************************************************************)
(* String literals of the program, as character sequences.                 *)
(***************************************************************************)
s_string == <<"s", "t", "r", "i", "n", "g">>
s_bytes == <<"b", "y", "t", "e", "s">>
s_int32 == <<"i", "n", "t", "3", "2">>
s_int64 == <<"i", "n", "t", "6", "4">>
s_uint32 == <<"u", "i", "n", "t", "3", "2">>
s_uint64 == <<"u", "i", "n", "t", "6", "4">>
s_sint32 == <<"s", "i", "n", "t", "3", "2">>
s_sint64 == <<"s", "i", "n", "t", "6", "4">>
s_bool == <<"b", "o", "o", "l">>
s_double == <<"d", "o", "u", "b", "l", "e">>
s_float == <<"f", "l", "o", "a", "t">>
s_fixed32 == <<"f", "i", "x", "e", "d", "3", "2">>
s_fixed64 == <<"f", "i", "x", "e", "d", "6", "4">>
s_sfixed32 == <<"s", "f", "i", "x", "e", "d", "3", "2">>
s_sfixed64 == <<"s", "f", "i", "x", "e", "d", "6", "4">>
s_message == <<"m", "e", "s", "s", "a", "g", "e">>
s_enum == <<"e", "n", "u", "m">>
s_map == <<"m", "a", "p">>
s_oneof == <<"o", "n", "e", "o", "f">>
s_interface == <<"i", "n", "t", "e", "r", "f", "a", "c", "e">>
s_repeated == <<"r", "e", "p", "e", "a", "t", "e", "d">>
s_optional == <<"o", "p", "t", "i", "o", "n", "a", "l">>
s_custom == <<"c", "u", "s", "t", "o", "m">>

\* Go's nil error: an error is the sequence of the literal fragments of its
\* message, and the empty sequence is nil.
NoErr == <<>>

\* Go's nil for an ast.Expr (the Len of a slice type)
NilExpr == [k |-> "nil"]

\* Go's nil *TypeInfo: a pointer is a sequence of at most one element
NilInfo == <<>>

(***************************************************************************)
(* The Go standard library functions parseStruct calls on tag text.        *)
(***************************************************************************)

\* unicode.IsSpace, on the white space the inputs use
IsSpace(c) == c \in {" ", "\t", "\n", "\r"}

RECURSIVE TrimLeft(_)
TrimLeft(s) ==
    IF s # <<>> /\ IsSpace(Head(s)) THEN TrimLeft(Tail(s)) ELSE s

RECURSIVE TrimRight(_)
TrimRight(s) ==
    IF s # <<>> /\ IsSpace(s[Len(s)]) THEN TrimRight(SubSeq(s, 1, Len(s) - 1)) ELSE s

\* strings.TrimSpace
TrimSpace(s) == TrimRight(TrimLeft(s))

\* strings.Index(s, c) for a one-character c, 1-based; 0 stands for Go's -1
Index(s, c) ==
    IF \E i \in 1..Len(s) : s[i] = c
    THEN CHOOSE i \in 1..Len(s) : s[i] = c /\ \A j \in 1..(i - 1) : s[j] # c
    ELSE 0

\* LastIndex that finds the first occurrence
C4m_LastIndex(s, c) ==
    IF \E i \in 1..Len(s) : s[i] = c
    THEN CHOOSE i \in 1..Len(s) : s[i] = c /\ \A j \in 1..(i - 1) : s[j] # c
    ELSE 0

\* strings.LastIndex(s, c) for a one-character c, 1-based; 0 stands for Go's -1
LastIndex(s, c) ==
    IF \E i \in 1..Len(s) : s[i] = c
    THEN CHOOSE i \in 1..Len(s) : s[i] = c /\ \A j \in (i + 1)..Len(s) : s[j] # c
    ELSE 0

\* strings.Split(s, sep) for a one-character sep: n separators give n+1 parts
RECURSIVE Split(_, _)
Split(s, sep) ==
    LET i == Index(s, sep)
    IN  IF i = 0 THEN <<s>>
        ELSE <<SubSeq(s, 1, i - 1)>> \o Split(SubSeq(s, i + 1, Len(s)), sep)

Digits == <<"0", "1", "2", "3", "4", "5", "6", "7", "8", "9">>

IsDigit(c) == \E d \in 1..10 : Digits[d] = c

DigitVal(c) == (CHOOSE d \in 1..10 : Digits[d] = c) - 1

RECURSIVE ParseDigits(_, _)
ParseDigits(s, acc) ==
    IF s = <<>> THEN acc ELSE ParseDigits(Tail(s), acc * 10 + DigitVal(Head(s)))

\* strconv.Atoi: an optional sign, then decimal digits only.  The result is
\* [ok |-> FALSE] for Go's non-nil error.  Go's range error needs a text beyond the
\* int width; the texts of this model stay below it.
Atoi(s) ==
    LET signed == s # <<>> /\ Head(s) \in {"+", "-"}
        body   == IF signed THEN Tail(s) ELSE s
    IN  IF body = <<>> \/ \E i \in 1..Len(body) : ~IsDigit(body[i])
        THEN [ok |-> FALSE, val |-> 0]
        ELSE [ok |-> TRUE,
              val |-> IF signed /\ Head(s) = "-"
                      THEN 0 - ParseDigits(body, 0)
                      ELSE ParseDigits(body, 0)]


(***************************************************************************)
(* validation.go                                                           *)
(***************************************************************************)

validProtoTypes ==
    {s_string, s_bytes, s_int32, s_int64, s_uint32, s_uint64, s_sint32,
     s_sint64, s_bool, s_double, s_float, s_fixed32, s_fixed64, s_sfixed32,
     s_sfixed64, s_message, s_enum, s_map, s_oneof}

validMapKeyTypes ==
    {s_string, s_int32, s_int64, s_uint32, s_uint64, s_sint32, s_sint64,
     s_fixed32, s_fixed64, s_sfixed32, s_sfixed64, s_bool}

\* isValidProtoType that accepts every word
C9m_isValidProtoType(protoType) == TRUE

isValidProtoType(protoType) == protoType \in validProtoTypes

\* isValidMapKeyType that looks the key up in the table of wire types
C3m_isValidMapKeyType(protoType) == protoType \in validProtoTypes

isValidMapKeyType(protoType) == protoType \in validMapKeyTypes

\* the identifiers validateOneofFieldType treats as primitive types
PrimitiveIdents ==
    {"string", "bool", "byte", "rune",
     "int", "int8", "int16", "int32", "int64",
     "uint", "uint8", "uint16", "uint32", "uint64",
     "float32", "float64", "complex64", "complex128",
     "uintptr"}

(***************************************************************************)
(* Go type expressions (go/ast) are records tagged by their node kind k:   *)
(* Ident(Name), SelectorExpr(X, Sel), StarExpr(X), ArrayType(Len, Elt),    *)
(* MapType(Key, Value), InterfaceType, ChanType, FuncType, StructType,     *)
(* BasicLit(Value).  An ArrayType with Len = NilExpr is a slice.             *)
(***************************************************************************)

RECURSIVE exprToString(_)
exprToString(expr) ==
    CASE expr.k = "Ident"        -> expr.Name
      [] expr.k = "SelectorExpr" -> exprToString(expr.X) \o "." \o expr.Sel
      [] expr.k = "StarExpr"     -> "*" \o exprToString(expr.X)
      [] expr.k = "ArrayType"    ->
            IF expr.Len = NilExpr
            THEN "[]" \o exprToString(expr.Elt)
            ELSE "[" \o exprToString(expr.Len) \o "]" \o exprToString(expr.Elt)
      [] expr.k = "BasicLit"     -> expr.Value
      [] expr.k = "MapType"      ->
            "map[" \o exprToString(expr.Key) \o "]" \o exprToString(expr.Value)
      [] OTHER                   -> "*ast." \o expr.k

\* validateOneofFieldType without the pointer case
C7m_validateOneofFieldType(expr) ==
    CASE expr.k = "Ident" ->
            IF expr.Name \in PrimitiveIdents
            THEN <<"oneof tag cannot be used on", "primitive type">>
            ELSE NoErr
      [] expr.k \in {"InterfaceType", "SelectorExpr", "StarExpr"} -> NoErr
      [] expr.k = "ArrayType" -> <<"oneof tag cannot be used on", "slice/array type">>
      [] expr.k = "MapType"   -> <<"oneof tag cannot be used on", "map type">>
      [] expr.k = "ChanType"  -> <<"oneof tag cannot be used on", "channel type">>
      [] expr.k = "FuncType"  -> <<"oneof tag cannot be used on", "function type">>
      [] OTHER -> <<"oneof tag cannot be used on", "type">>

validateOneofFieldType(expr) ==
    CASE expr.k = "Ident" ->
            IF expr.Name \in PrimitiveIdents
            THEN <<"oneof tag cannot be used on", "primitive type">>
            ELSE NoErr
      [] expr.k = "InterfaceType" -> NoErr
      [] expr.k = "ArrayType" -> <<"oneof tag cannot be used on", "slice/array type">>
      [] expr.k = "MapType"   -> <<"oneof tag cannot be used on", "map type">>
      [] expr.k = "StarExpr"  -> <<"oneof tag cannot be used on", "pointer type">>
      [] expr.k = "ChanType"  -> <<"oneof tag cannot be used on", "channel type">>
      [] expr.k = "FuncType"  -> <<"oneof tag cannot be used on", "function type">>
      [] expr.k = "SelectorExpr" -> NoErr
      [] OTHER -> <<"oneof tag cannot be used on", "type">>

RECURSIVE getTypeName(_)
\* getTypeName that does not look through a pointer
C24m_getTypeName(expr) ==
    CASE expr.k = "Ident"        -> expr.Name
      [] expr.k = "SelectorExpr" -> expr.Sel
      [] OTHER                   -> ""

getTypeName(expr) ==
    CASE expr.k = "Ident"        -> expr.Name
      [] expr.k = "SelectorExpr" -> expr.Sel
      [] expr.k = "StarExpr"     -> getTypeName(expr.X)
      [] OTHER                   -> ""

\* inferIdent without the case for any
C6m_inferIdent(name) ==
    CASE name = "string"  -> s_string
      [] name = "bool"    -> s_bool
      [] name = "int32"   -> s_int32
      [] name = "int64"   -> s_int64
      [] name = "int"     -> s_int64
      [] name = "uint32"  -> s_uint32
      [] name = "uint64"  -> s_uint64
      [] name = "uint"    -> s_uint64
      [] name = "float32" -> s_float
      [] name = "float64" -> s_double
      [] name = "byte"    -> s_int32
      [] OTHER            -> s_message

inferIdent(name) ==
    CASE name = "string"  -> s_string
      [] name = "bool"    -> s_bool
      [] name = "int32"   -> s_int32
      [] name = "int64"   -> s_int64
      [] name = "int"     -> s_int64
      [] name = "uint32"  -> s_uint32
      [] name = "uint64"  -> s_uint64
      [] name = "uint"    -> s_uint64
      [] name = "float32" -> s_float
      [] name = "float64" -> s_double
      [] name = "byte"    -> s_int32
      [] name = "any"     -> s_interface
      [] OTHER            -> s_message

IsByteIdent(expr) == expr.k = "Ident" /\ expr.Name = "byte"

RECURSIVE inferProtoType(_)
\* inferProtoType that does not look into a type expression
C17m_inferProtoType(expr) ==
    CASE expr.k = "Ident"         -> inferIdent(expr.Name)
      [] expr.k = "InterfaceType" -> s_interface
      [] expr.k = "MapType"       -> s_map
      [] OTHER                    -> s_message

inferProtoType(expr) ==
    CASE expr.k = "Ident"         -> inferIdent(expr.Name)
      [] expr.k = "InterfaceType" -> s_interface
      [] expr.k = "SelectorExpr"  -> s_message
      [] expr.k = "StarExpr"      -> inferProtoType(expr.X)
      [] expr.k = "ArrayType"     ->
            IF expr.Len = NilExpr /\ IsByteIdent(expr.Elt)
            THEN s_bytes
            ELSE inferProtoType(expr.Elt)
      [] expr.k = "MapType"       -> s_map
      [] OTHER                    -> s_bytes

\* analyzeType without the special case for []byte
C19m_analyzeType(fi, expr) ==
    IF expr.k = "ArrayType" /\ expr.Len = NilExpr THEN [fi EXCEPT !.IsRepeated = TRUE]
    ELSE fi

\* analyzeType sets fields of *fi in place; here it returns the new value.
analyzeType(fi, expr) ==
    CASE expr.k = "Ident" ->
            [fi EXCEPT !.BaseType = expr.Name, !.ElemType = expr.Name,
                       !.RawElemType = expr.Name]
      [] expr.k = "SelectorExpr" ->
            LET fullType == exprToString(expr)
            IN  [fi EXCEPT !.BaseType = fullType, !.ElemType = fullType,
                           !.RawElemType = fullType]
      [] expr.k = "StarExpr" ->
            LET inner == exprToString(expr.X)
            IN  [fi EXCEPT !.IsPointer = TRUE, !.IsOptional = TRUE,
                           !.BaseType = inner, !.ElemType = inner,
                           !.RawElemType = inner]
      [] expr.k = "ArrayType" ->
            IF expr.Len # NilExpr THEN fi
            ELSE IF IsByteIdent(expr.Elt)
            THEN [fi EXCEPT !.BaseType = "[]byte", !.ElemType = "byte",
                            !.RawElemType = "byte"]
            ELSE IF expr.Elt.k = "StarExpr"
            THEN LET elem == exprToString(expr.Elt.X)
                 IN  [fi EXCEPT !.IsRepeated = TRUE, !.IsSliceOfPtr = TRUE,
                                !.ElemType = elem, !.RawElemType = "*" \o elem,
                                !.BaseType = elem]
            ELSE LET elem == exprToString(expr.Elt)
                 IN  [fi EXCEPT !.IsRepeated = TRUE, !.ElemType = elem,
                                !.RawElemType = elem, !.BaseType = elem]
      [] OTHER -> fi

(***************************************************************************)
(* parseStruct.  A field declaration (ast.Field) is                        *)
(*   [Names |-> sequence of names (empty for an embedded field),           *)
(*    Type  |-> type expression,                                           *)
(*    Tag   |-> [set |-> FALSE] for field.Tag == nil, else                 *)
(*              [set |-> TRUE, protobuf |-> tag.Get("protobuf")]]          *)
(***************************************************************************)

MaxFieldNum == 536870911
ReservedLo == 19000
ReservedHi == 19999
OneofSentinel == -1

ZeroFieldInfo ==
    [Name |-> "", GoType |-> "", FieldNum |-> 0, ProtoType |-> <<>>,
     IsRepeated |-> FALSE, IsMessage |-> FALSE, IsPointer |-> FALSE,
     IsSliceOfPtr |-> FALSE, IsOptional |-> FALSE, IsEnum |-> FALSE,
     IsMap |-> FALSE, IsCustom |-> FALSE, ElemType |-> "",
     RawElemType |-> "", BaseType |-> "", NeedsTypeConv |-> FALSE,
     ConvType |-> "", MapKeyType |-> "", MapValueType |-> "",
     MapKeyProto |-> <<>>, MapValueProto |-> <<>>, MapValueIsMsg |-> FALSE,
     MapValueIsPtr |-> FALSE, MapValueCustom |-> FALSE, IsOneof |-> FALSE,
     OneofVariants |-> <<>>]

\* the name the error messages print for the field
FirstName(field) == IF Len(field.Names) > 0 THEN field.Names[1] ELSE ""

\* The loop over parts[1:] of a oneof tag: parts[i..] are still to be read,
\* acc holds the variants read so far.  Result: [err, variants].
RECURSIVE ParseVariants(_, _, _)
ParseVariants(parts, i, acc) ==
    IF i > Len(parts) THEN [err |-> NoErr, variants |-> acc]
    ELSE
    LET part     == TrimSpace(parts[i])
        colonIdx == LastIndex(part, ":")
        variantType == TrimSpace(SubSeq(part, 1, colonIdx - 1))
        num      == Atoi(TrimSpace(SubSeq(part, colonIdx + 1, Len(part))))
        fail(e)  == [err |-> e, variants |-> <<>>]
    IN  IF colonIdx = 0
        THEN fail(<<"invalid oneof variant", "expected Type:FieldNum format">>)
        ELSE IF ~num.ok
        THEN fail(<<"invalid field number", "for oneof variant", "in tag">>)
        ELSE IF num.val < 1 \/ num.val > MaxFieldNum
        THEN fail(<<"invalid field number", "for oneof variant", "must be 1-536870911">>)
        ELSE IF num.val >= ReservedLo /\ num.val <= ReservedHi
        THEN fail(<<"invalid field number", "for oneof variant",
                    "range 19000-19999 is reserved">>)
        ELSE IF \E k \in 1..Len(acc) : acc[k].FieldNum = num.val
        THEN fail(<<"duplicate field number", "in oneof", "used by both">>)
        ELSE ParseVariants(parts, i + 1,
                 Append(acc, [TypeName |-> variantType, FieldNum |-> num.val]))

\* ParseOneofTag that asks for one part instead of two
C5m_ParseOneofTag(field, parts) ==
    LET verr == validateOneofFieldType(field.Type)
        vs   == ParseVariants(parts, 2, <<>>)
        fail(e) == [err |-> e, fieldNum |-> 0, variants |-> <<>>]
    IN  IF verr # NoErr
        THEN fail(<<"invalid oneof field", "in type">> \o verr)
        ELSE IF Len(parts) < 1
        THEN fail(<<"oneof tag requires", "at least one variant">>)
        ELSE IF vs.err # NoErr THEN fail(vs.err)
        ELSE [err |-> NoErr, fieldNum |-> OneofSentinel, variants |-> vs.variants]

\* The isOneof branch: the field type check, then the variants; the field
\* number is the sentinel.  Result: [err, fieldNum, variants].
ParseOneofTag(field, parts) ==
    LET verr == validateOneofFieldType(field.Type)
        vs   == ParseVariants(parts, 2, <<>>)
        fail(e) == [err |-> e, fieldNum |-> 0, variants |-> <<>>]
    IN  IF verr # NoErr
        THEN fail(<<"invalid oneof field", "in type">> \o verr)
        ELSE IF Len(parts) < 2
        THEN fail(<<"oneof tag requires", "at least one variant">>)
        ELSE IF vs.err # NoErr THEN fail(vs.err)
        ELSE [err |-> NoErr, fieldNum |-> OneofSentinel, variants |-> vs.variants]

\* ParseFieldNum with the reserved range tested from 19001
C2m_ParseFieldNum(parts) ==
    LET num == Atoi(TrimSpace(parts[1]))
        fail(e) == [err |-> e, fieldNum |-> 0, variants |-> <<>>]
    IN  IF ~num.ok
        THEN fail(<<"invalid field number", "in tag", "must be a number">>)
        ELSE IF num.val < 1
        THEN fail(<<"invalid field number", "in tag", "must be >= 1">>)
        ELSE IF num.val > MaxFieldNum
        THEN fail(<<"invalid field number", "in tag", "must be <= 536870911">>)
        ELSE IF num.val > ReservedLo /\ num.val <= ReservedHi
        THEN fail(<<"invalid field number", "in tag", "range 19000-19999 is reserved">>)
        ELSE [err |-> NoErr, fieldNum |-> num.val, variants |-> <<>>]

\* The else branch: parts[0] is the field number.  Result: [err, fieldNum, variants].
ParseFieldNum(parts) ==
    LET num == Atoi(TrimSpace(parts[1]))
        fail(e) == [err |-> e, fieldNum |-> 0, variants |-> <<>>]
    IN  IF ~num.ok
        THEN fail(<<"invalid field number", "in tag", "must be a number">>)
        ELSE IF num.val < 1
        THEN fail(<<"invalid field number", "in tag", "must be >= 1">>)
        ELSE IF num.val > MaxFieldNum
        THEN fail(<<"invalid field number", "in tag", "must be <= 536870911">>)
        ELSE IF num.val >= ReservedLo /\ num.val <= ReservedHi
        THEN fail(<<"invalid field number", "in tag", "range 19000-19999 is reserved">>)
        ELSE [err |-> NoErr, fieldNum |-> num.val, variants |-> <<>>]

\* "Proto type is optional": from the oneof form, from parts[1], or inferred.
\* Result: [err, protoType].
SelectProtoType(field, parts, isOneof) ==
    IF isOneof THEN [err |-> NoErr, protoType |-> s_oneof]
    ELSE IF Len(parts) >= 2
    THEN LET protoType == TrimSpace(parts[2])
         IN  IF ~isValidProtoType(protoType)
             THEN [err |-> <<"invalid protobuf type", "in tag">>, protoType |-> protoType]
             ELSE [err |-> NoErr, protoType |-> protoType]
    ELSE [err |-> NoErr, protoType |-> inferProtoType(field.Type)]

\* "For maps, we need key and value types from the tag or infer them".
\* Result: [err, mapKeyProto, mapValueProto].
\* SelectMapTypes that never reads the key and value slots of the tag
C23m_SelectMapTypes(field, parts, isMap) ==
    IF ~isMap THEN [err |-> NoErr, mapKeyProto |-> <<>>, mapValueProto |-> <<>>]
    ELSE IF field.Type.k # "MapType" \/ ~isValidMapKeyType(inferProtoType(field.Type.Key))
    THEN [err |-> <<"invalid map key type", "in tag",
                    "must be string, bool, or integer type">>,
          mapKeyProto |-> <<>>, mapValueProto |-> <<>>]
    ELSE [err |-> NoErr, mapKeyProto |-> inferProtoType(field.Type.Key),
          mapValueProto |-> inferProtoType(field.Type.Value)]

SelectMapTypes(field, parts, isMap) ==
    LET fromTag == Len(parts) >= 4
        fromGo  == ~fromTag /\ field.Type.k = "MapType"
        key == IF fromTag THEN TrimSpace(parts[3])
               ELSE IF fromGo THEN inferProtoType(field.Type.Key) ELSE <<>>
        val == IF fromTag THEN TrimSpace(parts[4])
               ELSE IF fromGo THEN inferProtoType(field.Type.Value) ELSE <<>>
    IN  IF ~isMap
        THEN [err |-> NoErr, mapKeyProto |-> <<>>, mapValueProto |-> <<>>]
        ELSE IF ~isValidMapKeyType(key)
        THEN [err |-> <<"invalid map key type", "in tag",
                        "must be string, bool, or integer type">>,
              mapKeyProto |-> key, mapValueProto |-> val]
        ELSE [err |-> NoErr, mapKeyProto |-> key, mapValueProto |-> val]

\* OptionWords that reads the first option part only
C20m_OptionWords(parts, isOneof, isMap) ==
    IF isOneof \/ Len(parts) < 3 THEN {} ELSE {TrimSpace(parts[3])}

\* The option words: the trimmed parts from optionStart on (none for a oneof).
OptionWords(parts, isOneof, isMap) ==
    LET optionStart == IF isMap /\ Len(parts) >= 4 THEN 4 ELSE 2
    IN  IF isOneof THEN {}
        ELSE {TrimSpace(parts[i]) : i \in (optionStart + 1)..Len(parts)}

\* FieldNames that keeps the first name of a declaration only
C26m_FieldNames(field) ==
    IF Len(field.Names) > 0 THEN [err |-> NoErr, names |-> <<field.Names[1]>>]
    ELSE IF getTypeName(field.Type) = ""
    THEN [err |-> <<"cannot determine name for embedded field", "in type">>,
          names |-> <<>>]
    ELSE [err |-> NoErr, names |-> <<getTypeName(field.Type)>>]

\* "Handle embedded fields".  Result: [err, names].
FieldNames(field) ==
    LET embeddedName == getTypeName(field.Type)
    IN  IF Len(field.Names) > 0 THEN [err |-> NoErr, names |-> field.Names]
        ELSE IF embeddedName = ""
        THEN [err |-> <<"cannot determine name for embedded field", "in type">>,
              names |-> <<>>]
        ELSE [err |-> NoErr, names |-> <<embeddedName>>]

\* seenFieldNums is a map from field number to the name that took it: a
\* function whose domain is the set of numbers seen.
MapPut(m, key, value) ==
    [x \in (DOMAIN m) \cup {key} |-> IF x = key THEN value ELSE m[x]]

\* "For oneof, check all variant field numbers": variants[k..] against the
\* numbers seen, each one recorded as it passes.  Result: [err, seen].
RECURSIVE CheckVariantNums(_, _, _, _)
CheckVariantNums(seen, fieldName, variants, k) ==
    IF k > Len(variants) THEN [err |-> NoErr, seen |-> seen]
    ELSE IF variants[k].FieldNum \in DOMAIN seen
    THEN [err |-> <<"duplicate field number", "used by both", "and oneof variant",
                    "in type">>,
          seen |-> seen]
    ELSE CheckVariantNums(
             MapPut(seen, variants[k].FieldNum, <<fieldName, ":", variants[k].TypeName>>),
             fieldName, variants, k + 1)

\* CheckDuplicate with the variant numbers of a oneof checked but not recorded
C1m_CheckDuplicate(seen, fieldName, c) ==
    IF c.isOneof
    THEN [err |-> CheckVariantNums(seen, fieldName, c.variants, 1).err, seen |-> seen]
    ELSE IF c.fieldNum \in DOMAIN seen
    THEN [err |-> <<"duplicate field number", "used by both", "in type">>,
          seen |-> seen]
    ELSE [err |-> NoErr, seen |-> MapPut(seen, c.fieldNum, <<fieldName>>)]

\* "Check for duplicate field numbers", for one field name.  Result: [err, seen].
CheckDuplicate(seen, fieldName, c) ==
    IF c.isOneof THEN CheckVariantNums(seen, fieldName, c.variants, 1)
    ELSE IF c.fieldNum \in DOMAIN seen
    THEN [err |-> <<"duplicate field number", "used by both", "in type">>,
          seen |-> seen]
    ELSE [err |-> NoErr, seen |-> MapPut(seen, c.fieldNum, <<fieldName>>)]

\* "Handle map-specific parsing"
WithMapInfo(fi, field, c) ==
    IF ~fi.IsMap THEN fi
    ELSE LET m == [fi EXCEPT !.MapKeyProto = c.mapKeyProto,
                             !.MapValueProto = c.mapValueProto,
                             !.MapValueIsMsg = (c.mapValueProto = s_message),
                             !.MapValueCustom = c.mapValueCustom]
         IN  IF field.Type.k # "MapType" THEN m
             ELSE [m EXCEPT !.MapKeyType = exprToString(field.Type.Key),
                            !.MapValueType = exprToString(field.Type.Value),
                            !.MapValueIsPtr = (field.Type.Value.k = "StarExpr")]

\* "Handle enum type conversion"
WithEnumConv(fi) ==
    IF fi.IsEnum THEN [fi EXCEPT !.NeedsTypeConv = TRUE, !.ConvType = "int32"]
    ELSE fi

\* The FieldInfo built for one field name from what the tag gave (c).
NewFieldInfo(field, fieldName, c) ==
    LET fi == [ZeroFieldInfo EXCEPT
                  !.Name = fieldName,
                  !.FieldNum = c.fieldNum,
                  !.ProtoType = c.protoType,
                  !.IsRepeated = c.isRepeated,
                  !.IsOptional = c.isOptional,
                  !.IsMessage = (c.protoType = s_message),
                  !.IsEnum = c.isEnum,
                  !.IsMap = c.isMap,
                  !.IsCustom = c.isCustom,
                  !.IsOneof = c.isOneof,
                  !.OneofVariants = c.variants,
                  !.GoType = exprToString(field.Type)]
    IN  WithEnumConv(WithMapInfo(analyzeType(fi, field.Type), field, c))

\* The loop over fieldNames: names[j..] are still to be emitted.
\* Result: [err, seen, fields].
RECURSIVE EmitFields(_, _, _, _, _, _)
AfterCheck(field, names, j, c, d, fields) ==
    IF d.err # NoErr
    THEN [err |-> d.err, seen |-> d.seen, fields |-> fields]
    ELSE EmitFields(field, names, j + 1, c, d.seen,
                    Append(fields, NewFieldInfo(field, names[j], c)))

EmitFields(field, names, j, c, seen, fields) ==
    IF j > Len(names) THEN [err |-> NoErr, seen |-> seen, fields |-> fields]
    ELSE AfterCheck(field, names, j, c, CheckDuplicate(seen, names[j], c), fields)

\* The rest of one iteration, once the tag gave the number or the variants
\* (num), the wire type (pt), the map key and value types (mt), the option
\* words and the field names (fn): the first error in the order the code
\* checks, else the descriptors.  Result: [err, seen, fields].
EmitTagged(field, isOneof, num, pt, mt, words, fn, seen, fields) ==
    LET isMap == pt.protoType = s_map
        c == [fieldNum       |-> num.fieldNum,
              variants       |-> num.variants,
              protoType      |-> pt.protoType,
              isOneof        |-> isOneof,
              isMap          |-> isMap,
              isRepeated     |-> s_repeated \in words,
              isOptional     |-> s_optional \in words,
              isEnum         |-> pt.protoType = s_enum \/ s_enum \in words,
              isCustom       |-> s_custom \in words,
              mapKeyProto    |-> mt.mapKeyProto,
              mapValueProto  |-> mt.mapValueProto,
              mapValueCustom |-> isMap /\ s_custom \in words]
        fail(e) == [err |-> e, seen |-> seen, fields |-> fields]
    IN  IF num.err # NoErr THEN fail(num.err)
        ELSE IF pt.err # NoErr THEN fail(pt.err)
        ELSE IF pt.protoType = s_interface
        THEN fail(<<"interface types are not supported", "use oneof tag for polymorphism">>)
        ELSE IF mt.err # NoErr THEN fail(mt.err)
        ELSE IF fn.err # NoErr THEN fail(fn.err)
        ELSE EmitFields(field, fn.names, 1, c, seen, fields)

\* One iteration once the wire type is selected.
ParseTyped(field, parts, isOneof, num, pt, seen, fields) ==
    EmitTagged(field, isOneof, num, pt,
               SelectMapTypes(field, parts, pt.protoType = s_map),
               OptionWords(parts, isOneof, pt.protoType = s_map),
               FieldNames(field), seen, fields)

\* One iteration once the tag is split at its commas.
ParseParts(field, parts, isOneof, seen, fields) ==
    ParseTyped(field, parts, isOneof,
               IF isOneof THEN ParseOneofTag(field, parts) ELSE ParseFieldNum(parts),
               SelectProtoType(field, parts, isOneof), seen, fields)

\* One iteration of the loop over structType.Fields.List, for a field whose
\* protobuf tag is protoTag (not empty).  Result: [err, seen, fields].
ParseTaggedField(field, protoTag, seen, fields) ==
    ParseParts(field, Split(protoTag, ","),
               TrimSpace(Split(protoTag, ",")[1]) = s_oneof, seen, fields)

\* The loop over structType.Fields.List: list[i..] are still to be read;
\* an error ends it.
RECURSIVE ParseFieldList(_, _, _, _)
AfterField(list, i, r) ==
    IF r.err # NoErr THEN r ELSE ParseFieldList(list, i + 1, r.seen, r.fields)

ParseFieldList(list, i, seen, fields) ==
    IF i > Len(list) THEN [err |-> NoErr, seen |-> seen, fields |-> fields]
    ELSE IF ~list[i].Tag.set \/ list[i].Tag.protobuf = <<>>
    THEN ParseFieldList(list, i + 1, seen, fields)
    ELSE AfterField(list, i,
                    ParseTaggedField(list[i], list[i].Tag.protobuf, seen, fields))

\* sort.Slice with less = (FieldNum <): on the short slices of this model Go
\* sorts by insertion, each element moved left while less than its neighbour.
\* InsertField that never moves the new element left
C8m_InsertField(sorted, fi) == Append(sorted, fi)

RECURSIVE InsertField(_, _)
InsertField(sorted, fi) ==
    IF sorted = <<>> THEN <<fi>>
    ELSE IF fi.FieldNum < sorted[Len(sorted)].FieldNum
    THEN Append(InsertField(SubSeq(sorted, 1, Len(sorted) - 1), fi), sorted[Len(sorted)])
    ELSE Append(sorted, fi)

RECURSIVE SortFields(_)
SortFields(fields) ==
    IF fields = <<>> THEN <<>>
    ELSE InsertField(SortFields(SubSeq(fields, 1, Len(fields) - 1)), fields[Len(fields)])

\* the end of parseStruct: the error, or the descriptor with its fields sorted
SortAndReturn(typeName, r) ==
    IF r.err # NoErr THEN [info |-> NilInfo, err |-> r.err]
    ELSE [info |-> <<[Name |-> typeName, Fields |-> SortFields(r.fields)]>>,
          err  |-> NoErr]

\* parseStruct(typeName, structType): [info, err]
parseStruct(typeName, list) ==
    SortAndReturn(typeName, ParseFieldList(list, 1, <<>>, <<>>))

(***************************************************************************)
(* The struct declarations the model parses.  A declaration is described   *)
(* by how its source text was written (a field spec: the number of names,  *)
(* the type, and the tag as a field number followed by words, or as oneof  *)
(* followed by Type:number parts); the text itself is rendered from the    *)
(* description by TagText, numbers in decimal by Itoa.                     *)
(***************************************************************************)

\* the largest number of field declarations in a struct
MaxFields == 3

TypeName == "Chat"

RECURSIVE ItoaNat(_)
ItoaNat(n) ==
    IF n < 10 THEN <<Digits[n + 1]>>
    ELSE Append(ItoaNat(n \div 10), Digits[(n % 10) + 1])

\* strconv.Itoa
Itoa(n) == IF n < 0 THEN <<"-">> \o ItoaNat(0 - n) ELSE ItoaNat(n)

\* a field-number text: its characters, and the integer it denotes if any
Num(n)  == [txt |-> Itoa(n), val |-> n, numeric |-> TRUE]
Text(s) == [txt |-> s, val |-> 0, numeric |-> FALSE]
Padded(n) == [txt |-> <<" ">> \o Itoa(n) \o <<" ">>, val |-> n, numeric |-> TRUE]

NumToks ==
    {Num(1), Num(2), Num(3), Num(0), Num(-1), Num(18999), Num(19000),
     Num(19999), Num(20000), Num(536870911), Num(536870912),
     Padded(2), Text(<<"a", "b", "c">>), Text(<<"1", "x">>), Text(<<"1", ".", "5">>)}

\* a legal field number: numeric, in 1..MaxFieldNum, outside the reserved range
LegalNum(tok) ==
    /\ tok.numeric
    /\ tok.val >= 1 /\ tok.val <= 536870911
    /\ ~(tok.val >= 19000 /\ tok.val <= 19999)

v_TextMessage == <<"T", "e", "x", "t", "M", "e", "s", "s", "a", "g", "e">>
v_ImageMessage == <<"I", "m", "a", "g", "e", "M", "e", "s", "s", "a", "g", "e">>
v_VideoMessage == <<"V", "i", "d", "e", "o", "M", "e", "s", "s", "a", "g", "e">>
v_AudioMessage == <<"A", "u", "d", "i", "o", "M", "e", "s", "s", "a", "g", "e">>
v_Qualified == <<"p", "k", "g", ":", "T", "e", "x", "t">>
v_Padded == <<" ", "T", "e", "x", "t", "M", "e", "s", "s", "a", "g", "e", " ">>
w_bogus == <<"b", "o", "g", "u", "s">>
w_String == <<"S", "t", "r", "i", "n", "g">>
w_padded == <<" ", "s", "i", "n", "t", "6", "4", " ">>

\* tag descriptions
Untagged == [form |-> "untagged", num |-> Text(<<>>), rest |-> <<>>, parts |-> <<>>]
NoKey    == [form |-> "nokey", num |-> Text(<<>>), rest |-> <<>>, parts |-> <<>>]
Ordinary(num, rest) == [form |-> "ordinary", num |-> num, rest |-> rest, parts |-> <<>>]
Oneof(parts) == [form |-> "oneof", num |-> Text(<<>>), rest |-> <<>>, parts |-> parts]
Variant(T, num) == [T |-> T, colon |-> TRUE, num |-> num]
Bare(T) == [T |-> T, colon |-> FALSE, num |-> Text(<<>>)]

RECURSIVE JoinRest(_)
JoinRest(rest) ==
    IF rest = <<>> THEN <<>> ELSE <<",">> \o Head(rest) \o JoinRest(Tail(rest))

PartText(p) == IF p.colon THEN p.T \o <<":">> \o p.num.txt ELSE p.T

RECURSIVE JoinParts(_)
JoinParts(parts) ==
    IF parts = <<>> THEN <<>>
    ELSE <<",">> \o PartText(Head(parts)) \o JoinParts(Tail(parts))

\* the value of the protobuf key of the tag
TagText(tag) ==
    CASE tag.form = "ordinary" -> tag.num.txt \o JoinRest(tag.rest)
      [] tag.form = "oneof"    -> s_oneof \o JoinParts(tag.parts)
      [] OTHER                 -> <<>>

\* type expressions
Id(name)     == [k |-> "Ident", Name |-> name]
Sel(x, name) == [k |-> "SelectorExpr", X |-> Id(x), Sel |-> name]
Star(x)      == [k |-> "StarExpr", X |-> x]
Slice(elt)   == [k |-> "ArrayType", Len |-> NilExpr, Elt |-> elt]
Array(n, elt) == [k |-> "ArrayType", Len |-> [k |-> "BasicLit", Value |-> n], Elt |-> elt]
MapOf(key, value) == [k |-> "MapType", Key |-> key, Value |-> value]
Interface(methods) == [k |-> "InterfaceType", Methods |-> methods]
Chan(value)  == [k |-> "ChanType", Value |-> value]
Func         == [k |-> "FuncType"]
StructLit    == [k |-> "StructType"]

FieldSpec(nnames, type, tag) == [nnames |-> nnames, type |-> type, tag |-> tag]

\* the names of the field declaration at position pos: they differ between
\* declarations, as the names of the fields of a Go struct do
NameA == <<"A1", "A2", "A3", "A4", "A5", "A6">>
NameB == <<"B1", "B2", "B3", "B4", "B5", "B6">>

NamesAt(pos, nnames) ==
    CASE nnames = 0 -> <<>>
      [] nnames = 1 -> <<NameA[pos]>>
      [] OTHER      -> <<NameA[pos], NameB[pos]>>

\* the ast.Field of the field spec at position pos
FieldDecl(spec, pos) ==
    [Names |-> NamesAt(pos, spec.nnames),
     Type  |-> spec.type,
     Tag   |-> [set |-> spec.tag.form # "untagged", protobuf |-> TagText(spec.tag)]]

StructDecl(specs) == [i \in 1..Len(specs) |-> FieldDecl(specs[i], i)]

\* Field specs that occur at every position of a struct.
CoreSpecs ==
    {FieldSpec(1, Id("int64"), Ordinary(Num(1), <<>>)),
     FieldSpec(1, Id("string"), Ordinary(Num(2), <<>>)),
     FieldSpec(1, Star(Id("User")), Ordinary(Num(3), <<>>)),
     FieldSpec(1, Id("Message"),
               Oneof(<<Variant(v_TextMessage, Num(2)), Variant(v_ImageMessage, Num(3))>>)),
     FieldSpec(1, Id("Message"), Oneof(<<Variant(v_VideoMessage, Num(1))>>)),
     FieldSpec(1, Id("int64"), Untagged)}

\* Field specs that occur once in a struct, among core specs.
NumberSpecs ==
    {FieldSpec(1, Id("int64"), Ordinary(tok, <<>>)) : tok \in NumToks}
    \cup {FieldSpec(1, Id("int64"), Ordinary(Text(<<>>), <<s_string>>))}

VariantNumberSpecs ==
    {FieldSpec(1, Id("Message"), Oneof(<<Variant(v_TextMessage, tok)>>)) : tok \in NumToks}

OneofShapeSpecs ==
    {FieldSpec(1, Id("Message"), Oneof(parts)) : parts \in
        {<<>>,
         <<Bare(v_TextMessage)>>,
         <<Variant(v_TextMessage, Num(2)), Bare(v_ImageMessage)>>,
         <<Variant(v_TextMessage, Num(2)), Variant(v_ImageMessage, Num(2))>>,
         <<Variant(v_ImageMessage, Num(3)), Variant(v_TextMessage, Num(2))>>,
         <<Variant(v_TextMessage, Num(1)), Variant(v_ImageMessage, Num(2)),
           Variant(v_VideoMessage, Num(3)), Variant(v_AudioMessage, Num(4))>>,
         <<Variant(v_TextMessage, Num(20000)), Variant(v_TextMessage, Num(18999))>>,
         <<Variant(v_Qualified, Num(2))>>,
         <<Variant(v_Padded, Padded(2)), Variant(v_ImageMessage, Num(4))>>,
         <<Variant(v_TextMessage, Num(2)), Variant(v_ImageMessage, Num(0)),
           Variant(v_VideoMessage, Num(2))>>}}

OneofTypes ==
    {Id(n) : n \in PrimitiveIdents}
    \cup {Id("any"), Id("Message"), Id("error"), Sel("pkg", "Message"),
          Interface(0), Interface(1),
          Slice(Id("string")), Slice(Id("byte")), Array("4", Id("Message")),
          MapOf(Id("string"), Id("int")), Star(Id("Message")),
          Chan(Id("Message")), Func, StructLit}

OneofTypeSpecs ==
    {FieldSpec(1, type, Oneof(<<Variant(v_TextMessage, Num(1))>>)) : type \in OneofTypes}

WireWords ==
    validProtoTypes
    \cup {s_interface, w_bogus, w_String, w_padded, <<>>, s_repeated, s_optional, s_custom}

WireTypeSpecs ==
    {FieldSpec(1, Id("int64"), Ordinary(Num(1), <<w>>)) : w \in WireWords}
    \cup {FieldSpec(1, Id("int64"), Ordinary(Num(1), <<w, s_repeated>>)) :
            w \in {s_int64, w_bogus}}

MapTypes ==
    {MapOf(Id("string"), Id("int32")), MapOf(Id("int"), Star(Id("User"))),
     MapOf(Id("float64"), Id("string")), MapOf(Id("float32"), Id("string")),
     MapOf(Slice(Id("byte")), Id("string")), MapOf(Id("Key"), Id("string")),
     MapOf(Id("any"), Id("string")), MapOf(Id("bool"), Id("any")),
     MapOf(Id("byte"), Id("uint64")), MapOf(Sel("pkg", "Key"), Id("string")),
     Star(MapOf(Id("string"), Id("int32"))), Slice(MapOf(Id("string"), Id("int32"))),
     Id("Labels")}

MapTagRests ==
    {<<>>, <<s_map>>, <<s_map, s_string>>,
     <<s_map, s_string, s_int32>>, <<s_map, w_padded, s_message, s_custom>>,
     <<s_map, s_float, s_int32>>, <<s_map, s_double, s_int32>>,
     <<s_map, s_bytes, s_int32>>, <<s_map, s_message, s_int32>>,
     <<s_map, s_enum, s_int32>>, <<s_map, <<>>, s_int32>>,
     <<s_map, s_fixed32, w_bogus>>}

MapSpecs ==
    {FieldSpec(1, type, Ordinary(Num(1), <<>>)) : type \in MapTypes}
    \cup {FieldSpec(1, MapOf(Id("string"), Id("int32")), Ordinary(Num(1), rest)) :
            rest \in MapTagRests}
    \cup {FieldSpec(1, type, Ordinary(Num(1), <<s_map>>)) :
            type \in {MapOf(Id("float64"), Id("string")), MapOf(Id("uint32"), Id("string")),
                      Id("int64")}}
    \cup {FieldSpec(1, Id("Labels"), Ordinary(Num(1), <<s_map, s_uint64, s_string>>))}

InterfaceSpecs ==
    {FieldSpec(1, type, Ordinary(tok, <<>>)) :
        type \in {Id("any"), Interface(0), Interface(1), Star(Id("any")),
                  Slice(Id("any")), Array("4", Interface(0))},
        tok \in {Num(1), Num(2)}}
    \cup {FieldSpec(1, Id("any"), Ordinary(Num(0), <<>>)),
          FieldSpec(1, Id("any"), Ordinary(Num(1), <<s_message>>)),
          FieldSpec(1, Id("any"), Ordinary(Num(1), <<s_interface>>))}

NameSpecs ==
    {FieldSpec(2, Id("int64"), Ordinary(Num(1), <<>>)),
     FieldSpec(2, Id("Message"), Oneof(<<Variant(v_TextMessage, Num(1))>>)),
     FieldSpec(0, Id("User"), Ordinary(Num(1), <<>>)),
     FieldSpec(0, Star(Sel("pkg", "User")), Ordinary(Num(2), <<>>)),
     FieldSpec(0, Slice(Id("User")), Ordinary(Num(1), <<>>)),
     FieldSpec(1, Id("int64"), NoKey)}

WildSpecs ==
    (NumberSpecs \cup VariantNumberSpecs \cup OneofShapeSpecs \cup OneofTypeSpecs
     \cup WireTypeSpecs \cup MapSpecs \cup InterfaceSpecs \cup NameSpecs) \ CoreSpecs

\* the sequences of n core specs
CoreSeqs(n) == [1..n -> CoreSpecs]

\* the sequences of n specs, one of them (at position p) not a core spec
WildSeqs(n) ==
    {[i \in 1..n |-> IF i < p THEN c[i] ELSE IF i = p THEN w ELSE c[i - 1]] :
        p \in 1..n, w \in WildSpecs, c \in CoreSeqs(n - 1)}

Structs == UNION {CoreSeqs(n) \cup (IF n = 0 THEN {} ELSE WildSeqs(n)) : n \in 0..MaxFields}

(***************************************************************************)
(* The parser run: one call of parseStruct on a struct declaration.        *)
(***************************************************************************)

Init ==
    /\ pc = "idle"
    /\ input = <<>>
    /\ info = NilInfo
    /\ err = NoErr
    /\ typeInfos = <<>>
    /\ recv = ""
    /\ sent = <<>>
    /\ buffer = <<>>
    /\ wire = <<>>
    /\ decoded = <<>>
    /\ NoRun
    /\ NoCall

ParseStruct(s) ==
    /\ pc = "idle"
    /\ \E r \in {parseStruct(TypeName, StructDecl(s))} :
           /\ info' = r.info
           /\ err' = r.err
    /\ input' = s
    /\ pc' = "done"
    /\ UNCHANGED <<typeInfos, codecVars, mainVars, tmplVars>>

Next == pc = "idle" /\ \E s \in Structs : ParseStruct(s)

Spec == Init /\ [][Next]_vars

(***************************************************************************)
(* The name tables the template calls.                                     *)
(***************************************************************************)

\* readFunc that reads an int64 field with the reader of strings
C10m_readFunc(protoType) ==
    CASE protoType = s_string -> "String"
      [] protoType = s_int64  -> "String"
      [] OTHER                -> "Bytes"

\* readFunc: the FieldContext read function for a wire type
readFunc(protoType) ==
    CASE protoType = s_string   -> "String"
      [] protoType = s_bytes    -> "Bytes"
      [] protoType \in {s_int32, s_enum} -> "Int32"
      [] protoType = s_int64    -> "Int64"
      [] protoType = s_uint32   -> "Uint32"
      [] protoType = s_uint64   -> "Uint64"
      [] protoType = s_sint32   -> "Sint32"
      [] protoType = s_sint64   -> "Sint64"
      [] protoType = s_bool     -> "Bool"
      [] protoType = s_double   -> "Double"
      [] protoType = s_float    -> "Float"
      [] protoType = s_fixed32  -> "Fixed32"
      [] protoType = s_fixed64  -> "Fixed64"
      [] protoType = s_sfixed32 -> "Sfixed32"
      [] protoType = s_sfixed64 -> "Sfixed64"
      [] OTHER                  -> "Bytes"

\* unpackFunc with enum among the wire types that are not packed
C27m_unpackFunc(protoType) ==
    CASE protoType = s_int32    -> "UnpackInt32s"
      [] protoType = s_int64    -> "UnpackInt64s"
      [] protoType = s_uint32   -> "UnpackUint32s"
      [] protoType = s_uint64   -> "UnpackUint64s"
      [] protoType = s_sint32   -> "UnpackSint32s"
      [] protoType = s_sint64   -> "UnpackSint64s"
      [] protoType = s_bool     -> "UnpackBools"
      [] protoType = s_double   -> "UnpackDoubles"
      [] protoType = s_float    -> "UnpackFloats"
      [] protoType = s_fixed32  -> "UnpackFixed32s"
      [] protoType = s_fixed64  -> "UnpackFixed64s"
      [] protoType = s_sfixed32 -> "UnpackSfixed32s"
      [] protoType = s_sfixed64 -> "UnpackSfixed64s"
      [] OTHER                  -> "Bytes"

\* unpackFunc: the FieldContext unpack function for a packed repeated field
unpackFunc(protoType) ==
    CASE protoType \in {s_int32, s_enum} -> "UnpackInt32s"
      [] protoType = s_int64    -> "UnpackInt64s"
      [] protoType = s_uint32   -> "UnpackUint32s"
      [] protoType = s_uint64   -> "UnpackUint64s"
      [] protoType = s_sint32   -> "UnpackSint32s"
      [] protoType = s_sint64   -> "UnpackSint64s"
      [] protoType = s_bool     -> "UnpackBools"
      [] protoType = s_double   -> "UnpackDoubles"
      [] protoType = s_float    -> "UnpackFloats"
      [] protoType = s_fixed32  -> "UnpackFixed32s"
      [] protoType = s_fixed64  -> "UnpackFixed64s"
      [] protoType = s_sfixed32 -> "UnpackSfixed32s"
      [] protoType = s_sfixed64 -> "UnpackSfixed64s"
      [] OTHER                  -> "Bytes"

\* appendFunc: the MessageMarshaler append function for a wire type
appendFunc(protoType, isRepeated) ==
    CASE isRepeated /\ protoType = s_int32    -> "AppendInt32s"
      [] isRepeated /\ protoType = s_int64    -> "AppendInt64s"
      [] isRepeated /\ protoType = s_uint32   -> "AppendUint32s"
      [] isRepeated /\ protoType = s_uint64   -> "AppendUint64s"
      [] isRepeated /\ protoType = s_sint32   -> "AppendSint32s"
      [] isRepeated /\ protoType = s_sint64   -> "AppendSint64s"
      [] isRepeated /\ protoType = s_bool     -> "AppendBools"
      [] isRepeated /\ protoType = s_double   -> "AppendDoubles"
      [] isRepeated /\ protoType = s_float    -> "AppendFloats"
      [] isRepeated /\ protoType = s_fixed32  -> "AppendFixed32s"
      [] isRepeated /\ protoType = s_fixed64  -> "AppendFixed64s"
      [] isRepeated /\ protoType = s_sfixed32 -> "AppendSfixed32s"
      [] isRepeated /\ protoType = s_sfixed64 -> "AppendSfixed64s"
      [] OTHER ->
            CASE protoType = s_string   -> "AppendString"
              [] protoType = s_bytes    -> "AppendBytes"
              [] protoType \in {s_int32, s_enum} -> "AppendInt32"
              [] protoType = s_int64    -> "AppendInt64"
              [] protoType = s_uint32   -> "AppendUint32"
              [] protoType = s_uint64   -> "AppendUint64"
              [] protoType = s_sint32   -> "AppendSint32"
              [] protoType = s_sint64   -> "AppendSint64"
              [] protoType = s_bool     -> "AppendBool"
              [] protoType = s_double   -> "AppendDouble"
              [] protoType = s_float    -> "AppendFloat"
              [] protoType = s_fixed32  -> "AppendFixed32"
              [] protoType = s_fixed64  -> "AppendFixed64"
              [] protoType = s_sfixed32 -> "AppendSfixed32"
              [] protoType = s_sfixed64 -> "AppendSfixed64"
              [] OTHER                  -> "AppendBytes"

\* isLengthDelimited: the wire types whose repeated form is not packed
isLengthDelimited(protoType) == protoType = s_string \/ protoType = s_bytes

(***************************************************************************)
(* The wire format the runtime facade writes and reads.  A byte is a       *)
(* number in 0..255, an encoding a sequence of bytes, a string the         *)
(* sequence of its bytes.  A record value is a function from field names   *)
(* to values: an integer for int64, a byte sequence for string, a          *)
(* sequence of byte sequences for []string, Null or a record value for a   *)
(* pointer to a record.                                                    *)
(***************************************************************************)

Null == [isNull |-> TRUE]

WireVarint == 0
WireLen == 2
WireFixed64 == 1
WireFixed32 == 5
MaxVarintLen == 10

\* base-128 varint of a non-negative number, low group first
RECURSIVE VarintNat(_)
VarintNat(n) ==
    IF n < 128 THEN <<n>> ELSE <<128 + (n % 128)>> \o VarintNat(n \div 128)

\* the varint of the 64-bit two's complement of a negative number: nine
\* groups of seven bits, then bit 63
RECURSIVE VarintNeg(_, _)
VarintNeg(n, k) ==
    IF k = MaxVarintLen - 1 THEN <<1>>
    ELSE <<128 + (n % 128)>> \o VarintNeg(n \div 128, k + 1)

\* the varint of uint64(n) for an int64 n
Varint(n) == IF n < 0 THEN VarintNeg(n, 0) ELSE VarintNat(n)

\* the key of a fragment: field number and wire type
Key(fieldNum, wireType) == VarintNat(fieldNum * 8 + wireType)

\* a length-delimited fragment
LenFragment(fieldNum, data) == Key(fieldNum, WireLen) \o VarintNat(Len(data)) \o data

\* the append functions of the message builder that the records here use
AppendScalar(fn, fieldNum, v) ==
    CASE fn = "AppendInt64"  -> Key(fieldNum, WireVarint) \o Varint(v)
      [] fn = "AppendString" -> LenFragment(fieldNum, v)
      [] fn = "AppendBytes"  -> LenFragment(fieldNum, v)

\* IsDefault that takes no value for the default
C11m_IsDefault(protoType, v) == FALSE

\* the protobuf default of a scalar wire type
IsDefault(protoType, v) ==
    IF isLengthDelimited(protoType) THEN v = <<>> ELSE v = 0

\* the position of the last byte of the varint that starts at pos, 0 if
\* the bytes end first or the varint is longer than ten bytes
RECURSIVE VarintEnd(_, _, _)
VarintEnd(b, pos, k) ==
    IF pos > Len(b) \/ k = MaxVarintLen THEN 0
    ELSE IF b[pos] < 128 THEN pos
    ELSE VarintEnd(b, pos + 1, k + 1)

\* the groups b[first..i] folded from the top, as a signed 64-bit number
RECURSIVE FoldGroups(_, _, _, _)
FoldGroups(b, first, i, acc) ==
    IF i < first THEN acc
    ELSE FoldGroups(b, first, i - 1, acc * 128 + (b[i] % 128))

VarintAt(b, pos, e) ==
    IF e = 0 THEN [ok |-> FALSE, val |-> 0, next |-> pos]
    ELSE [ok   |-> TRUE,
          val  |-> IF e - pos = MaxVarintLen - 1
                   THEN FoldGroups(b, pos, e - 1, 0 - (b[e] % 2))
                   ELSE FoldGroups(b, pos, e, 0),
          next |-> e + 1]

ReadVarint(b, pos) == VarintAt(b, pos, VarintEnd(b, pos, 0))

NoFragment == [ok |-> FALSE, num |-> 0, wt |-> 0, val |-> 0, data |-> <<>>, next |-> 0]

\* the payload of a fragment whose key has been read
VarintPayload(num, r) ==
    IF ~r.ok THEN NoFragment
    ELSE [ok |-> TRUE, num |-> num, wt |-> WireVarint, val |-> r.val,
          data |-> <<>>, next |-> r.next]

LenPayload(b, num, r) ==
    IF ~r.ok \/ r.val < 0 \/ r.next + r.val - 1 > Len(b) THEN NoFragment
    ELSE [ok |-> TRUE, num |-> num, wt |-> WireLen, val |-> 0,
          data |-> SubSeq(b, r.next, r.next + r.val - 1), next |-> r.next + r.val]

FixedPayload(b, num, wt, pos, n) ==
    IF pos + n - 1 > Len(b) THEN NoFragment
    ELSE [ok |-> TRUE, num |-> num, wt |-> wt, val |-> 0,
          data |-> SubSeq(b, pos, pos + n - 1), next |-> pos + n]

PayloadAfterKey(b, key) ==
    IF ~key.ok THEN NoFragment
    ELSE CASE key.val % 8 = WireVarint  ->
                 VarintPayload(key.val \div 8, ReadVarint(b, key.next))
           [] key.val % 8 = WireLen     ->
                 LenPayload(b, key.val \div 8, ReadVarint(b, key.next))
           [] key.val % 8 = WireFixed64 ->
                 FixedPayload(b, key.val \div 8, WireFixed64, key.next, 8)
           [] key.val % 8 = WireFixed32 ->
                 FixedPayload(b, key.val \div 8, WireFixed32, key.next, 4)
           [] OTHER -> NoFragment

\* the field context: the tagged fragment that starts at pos
NextField(b, pos) == PayloadAfterKey(b, ReadVarint(b, pos))

\* the read functions of the field context that the records here use
ReadScalar(fn, f) ==
    CASE fn = "Int64"  -> [ok |-> f.wt = WireVarint, val |-> f.val]
      [] fn = "String" -> [ok |-> f.wt = WireLen, val |-> f.data]
      [] fn = "Bytes"  -> [ok |-> f.wt = WireLen, val |-> f.data]
      [] OTHER         -> [ok |-> FALSE, val |-> 0]

(***************************************************************************)
(* The emitted encoder and decoder of a record type, as section 4.3 of the *)
(* specification describes them.  types maps a type name to its            *)
(* descriptor.                                                             *)
(***************************************************************************)

RECURSIVE EncodeRecord(_, _, _)
RECURSIVE EncodeFields(_, _, _, _)

\* one fragment per element of a repeated string field
RECURSIVE EncodeElems(_, _, _)
EncodeElems(fi, elems, i) ==
    IF i > Len(elems) THEN <<>>
    ELSE AppendScalar(appendFunc(fi.ProtoType, FALSE), fi.FieldNum, elems[i])
         \o EncodeElems(fi, elems, i + 1)

\* the fragments of one field
EncodeField(types, fi, x) ==
    IF fi.IsMessage
    THEN IF x = Null THEN <<>>
         ELSE LenFragment(fi.FieldNum, EncodeRecord(types, fi.BaseType, x))
    ELSE IF fi.IsRepeated
    THEN EncodeElems(fi, x, 1)
    ELSE IF IsDefault(fi.ProtoType, x) THEN <<>>
    ELSE AppendScalar(appendFunc(fi.ProtoType, FALSE), fi.FieldNum, x)

EncodeFields(types, fields, i, v) ==
    IF i > Len(fields) THEN <<>>
    ELSE EncodeField(types, fields[i], v[fields[i].Name])
         \o EncodeFields(types, fields, i + 1, v)

\* the fields in the order of the descriptor
EncodeRecord(types, typeName, v) == EncodeFields(types, types[typeName].Fields, 1, v)

\* MarshalProtobuf that returns a buffer of its own
C12m_MarshalProtobuf(types, typeName, v, dst) == EncodeRecord(types, typeName, v)

\* MarshalProtobuf(dst) of the value v of the type typeName
MarshalProtobuf(types, typeName, v, dst) == dst \o EncodeRecord(types, typeName, v)

\* the zero value of a field of a fresh instance
ZeroField(fi) ==
    IF fi.IsMessage THEN Null
    ELSE IF fi.IsRepeated THEN <<>>
    ELSE IF isLengthDelimited(fi.ProtoType) THEN <<>>
    ELSE 0

\* the fresh instance of a record type
ZeroRecord(ti) ==
    [n \in {ti.Fields[i].Name : i \in 1..Len(ti.Fields)} |->
        ZeroField(ti.Fields[CHOOSE i \in 1..Len(ti.Fields) : ti.Fields[i].Name = n])]

\* the field of the descriptor with this field number, 0 if none
FieldIndex(ti, num) ==
    IF \E i \in 1..Len(ti.Fields) : ti.Fields[i].FieldNum = num
    THEN CHOOSE i \in 1..Len(ti.Fields) : ti.Fields[i].FieldNum = num
    ELSE 0

RECURSIVE DecodeRecord(_, _, _)
RECURSIVE DecodeLoop(_, _, _, _, _)

Failed(v) == [ok |-> FALSE, val |-> v]

\* r is what the read of the fragment gave: assign it to the field
Assign(fi, v, r, repeated) ==
    IF ~r.ok THEN Failed(v)
    ELSE [ok  |-> TRUE,
          val |-> IF repeated THEN [v EXCEPT ![fi.Name] = Append(@, r.val)]
                  ELSE [v EXCEPT ![fi.Name] = r.val]]

\* the case of the decoder's switch for the field fi
ReadInto(types, fi, f, v) ==
    IF fi.IsMessage
    THEN IF f.wt # WireLen THEN Failed(v)
         ELSE Assign(fi, v, DecodeRecord(types, fi.BaseType, f.data), FALSE)
    ELSE Assign(fi, v, ReadScalar(readFunc(fi.ProtoType), f), fi.IsRepeated)

\* a fragment with an unknown field number is skipped
ReadFragment(types, ti, f, idx, v) ==
    IF idx = 0 THEN [ok |-> TRUE, val |-> v]
    ELSE ReadInto(types, ti.Fields[idx], f, v)

AfterFragment(types, typeName, b, f, r) ==
    IF ~r.ok THEN r ELSE DecodeLoop(types, typeName, b, f.next, r.val)

WithFragment(types, typeName, b, f, v) ==
    IF ~f.ok THEN Failed(v)
    ELSE AfterFragment(types, typeName, b, f,
             ReadFragment(types, types[typeName], f,
                          FieldIndex(types[typeName], f.num), v))

DecodeLoop(types, typeName, b, pos, v) ==
    IF pos > Len(b) THEN [ok |-> TRUE, val |-> v]
    ELSE WithFragment(types, typeName, b, NextField(b, pos), v)

DecodeRecord(types, typeName, b) ==
    DecodeLoop(types, typeName, b, 1, ZeroRecord(types[typeName]))

\* UnmarshalProtobuf(src) on a fresh instance of the type typeName
UnmarshalProtobuf(types, typeName, src) == DecodeRecord(types, typeName, src)

(***************************************************************************)
(* The parser run on a struct of one field, over the type expressions and  *)
(* the tags a field can carry.                                             *)
(***************************************************************************)

\* the identifiers of the primitive mapping table, and two named types
IdentNames ==
    {"string", "bool", "int32", "int64", "int", "uint32", "uint64", "uint",
     "float32", "float64", "byte", "any", "User", "rune"}

\* type expressions one step above an identifier
ElemTypes ==
    {Id(n) : n \in IdentNames}
    \cup {Sel("pkg", "User"), Interface(0), Interface(1),
          MapOf(Id("string"), Id("int32")), Chan(Id("User")), Func, StructLit}

\* pointers, slices and arrays of them, and pointers, slices and arrays of
\* those
FieldTypes ==
    ElemTypes
    \cup {Star(x) : x \in ElemTypes}
    \cup {Slice(x) : x \in ElemTypes}
    \cup {Array("4", x) : x \in ElemTypes}
    \cup {Star(Slice(x)) : x \in {Id("User"), Id("byte"), Id("string"), Star(Id("User"))}}
    \cup {Slice(Star(x)) : x \in {Id("User"), Id("byte"), Id("string"), Sel("pkg", "User"),
                                   Star(Id("User"))}}
    \cup {Slice(Slice(x)) : x \in {Id("byte"), Id("string")}}
    \cup {Star(Star(x)) : x \in {Id("User"), Id("int64")}}
    \cup {Star(Array("4", x)) : x \in {Id("byte"), Id("User")}}
    \cup {Array("4", Star(Id("User"))), Array("4", Slice(Id("byte")))}

\* the type expressions without an explicit wire type
InferredSpecs == {FieldSpec(1, type, Ordinary(Num(1), <<>>)) : type \in FieldTypes}

\* slices under tags with and without an explicit wire type and options
SliceTypes ==
    {Slice(Id("byte")), Slice(Id("string")), Slice(Id("User")), Slice(Star(Id("User"))),
     Slice(Star(Id("byte"))), Slice(Slice(Id("byte"))), Array("4", Id("byte"))}

SliceTagRests ==
    {<<>>, <<s_bytes>>, <<s_bytes, s_repeated>>, <<s_bytes, s_optional>>,
     <<s_bytes, w_bogus>>, <<s_string>>, <<s_string, s_repeated>>, <<s_message>>}

SliceSpecs ==
    {FieldSpec(1, type, Ordinary(Num(1), rest)) : type \in SliceTypes, rest \in SliceTagRests}

\* the most parts after the wire-type slot, or after the map value slot
MaxOptions == 3

\* the words written after the wire type
TagWords == {s_repeated, s_optional, s_enum, s_custom, w_bogus}

RECURSIVE WordLists(_)
WordLists(n) ==
    IF n = 0 THEN {<<>>}
    ELSE WordLists(n - 1) \cup
         {Append(l, w) : l \in {k \in WordLists(n - 1) : Len(k) = n - 1}, w \in TagWords}

\* a Go type under each explicit wire type, the map with and without its
\* key and value slots
OptionHeads ==
    {[type |-> Id("int64"), head |-> <<>>],
     [type |-> Id("int64"), head |-> <<s_int64>>],
     [type |-> Id("string"), head |-> <<s_string>>],
     [type |-> Star(Id("User")), head |-> <<s_message>>],
     [type |-> Id("Status"), head |-> <<s_enum>>],
     [type |-> MapOf(Id("string"), Id("int32")), head |-> <<s_map>>],
     [type |-> MapOf(Id("string"), Id("int32")), head |-> <<s_map, s_string, s_int32>>]}

OptionSpecs ==
    {FieldSpec(1, h.type, Ordinary(Num(1), h.head \o l)) :
        h \in OptionHeads, l \in WordLists(MaxOptions)}

\* maps under tags with the wire type map, with and without the key and
\* value slots
MapFieldTypes ==
    {MapOf(Id("string"), Id("int32")), MapOf(Id("int"), Star(Id("User"))),
     MapOf(Id("uint32"), Id("User")), MapOf(Id("bool"), Slice(Id("byte")))}

MapSlotRests ==
    {<<s_map>>, <<s_map, s_custom>>, <<s_map, s_string>>, <<s_map, s_custom, s_repeated>>,
     <<s_map, s_uint64, s_message>>, <<s_map, w_padded, s_message, s_custom>>,
     <<s_map, s_int32, s_string, w_bogus, s_custom>>,
     <<s_map, s_string, s_int32, s_optional>>, <<s_map, s_bool, s_bytes, s_repeated>>}

MapSlotSpecs ==
    {FieldSpec(1, type, Ordinary(Num(1), rest)) :
        type \in MapFieldTypes, rest \in MapSlotRests}

\* embedded fields: a type expression without a name, under a tag
EmbeddedSpecs ==
    {FieldSpec(0, type, tag) :
        type \in FieldTypes,
        tag \in {Ordinary(Num(1), <<>>), Ordinary(Num(1), <<s_message>>),
                 Oneof(<<Variant(v_TextMessage, Num(1))>>)}}

FieldStructs ==
    {<<spec>> : spec \in InferredSpecs \cup SliceSpecs \cup OptionSpecs \cup MapSlotSpecs
                         \cup EmbeddedSpecs}

NextFields == pc = "idle" /\ \E s \in FieldStructs : ParseStruct(s)

SpecFields == Init /\ [][NextFields]_vars

(***************************************************************************)
(* The records of the repository and their values.                         *)
(***************************************************************************)

GoField(name, type, n) ==
    [Names |-> <<name>>, Type |-> type, Tag |-> [set |-> TRUE, protobuf |-> Itoa(n)]]

\* example: Message and User
ExampleStructs ==
    [Message |-> <<GoField("ID", Id("int64"), 1), GoField("Text", Id("string"), 2),
                   GoField("Sender", Star(Id("User")), 3),
                   GoField("Timestamp", Id("int64"), 4)>>,
     User    |-> <<GoField("ID", Id("int64"), 1), GoField("Name", Id("string"), 2)>>]

\* bench: Message and User
BenchStructs ==
    [Message |-> <<GoField("ID", Id("int64"), 1), GoField("Text", Id("string"), 2),
                   GoField("Sender", Star(Id("User")), 3),
                   GoField("Timestamp", Id("int64"), 4),
                   GoField("Tags", Slice(Id("string")), 5)>>,
     User    |-> <<GoField("ID", Id("int64"), 1), GoField("Name", Id("string"), 2),
                   GoField("Email", Id("string"), 3)>>]

\* the descriptors the generator holds for the requested types
TypeInfosOf(structs) ==
    [n \in DOMAIN structs |-> parseStruct(n, structs[n]).info[1]]

\* the longest string is one byte longer than a one-byte length can say
LongLen == 128

Bob == <<66, 111, 98>>
TestMessage == <<84, 101, 115, 116, 32, 109, 101, 115, 115, 97, 103, 101>>
LongText == [i \in 1..LongLen |-> 97]

Int64Values == {0, 1, 100, 999, -1}
StringValues == {<<>>, Bob, TestMessage, LongText}
StringsValues == {<<>>, <<Bob>>, <<<<>>, Bob>>}

\* the buffers handed to MarshalProtobuf: nil, and one that holds the bytes
\* of an earlier encoding
Buffers == {<<>>, <<8, 100>>}

RECURSIVE ValuesOf(_, _)
RECURSIVE ValuesFrom(_, _, _)

\* the values of one field
FieldValues(types, fi) ==
    IF fi.IsMessage THEN {Null} \cup ValuesOf(types, fi.BaseType)
    ELSE IF fi.IsRepeated THEN StringsValues
    ELSE IF isLengthDelimited(fi.ProtoType) THEN StringValues
    ELSE Int64Values

ValuesFrom(types, fields, i) ==
    IF i > Len(fields) THEN {<<>>}
    ELSE {(fields[i].Name :> x) @@ v :
             x \in FieldValues(types, fields[i]), v \in ValuesFrom(types, fields, i + 1)}

\* the values of a record type: every declared field populated
ValuesOf(types, typeName) == ValuesFrom(types, types[typeName].Fields, 1)

(***************************************************************************)
(* A run of the generated code: a value is marshalled into a buffer, and   *)
(* the bytes marshalled into an empty buffer are unmarshalled into a fresh *)
(* instance.                                                               *)
(***************************************************************************)

InitCodec ==
    /\ pc = "generated"
    /\ input = <<>>
    /\ info = NilInfo
    /\ err = NoErr
    /\ typeInfos \in {TypeInfosOf(ExampleStructs), TypeInfosOf(BenchStructs)}
    /\ recv = ""
    /\ sent = Null
    /\ buffer = <<>>
    /\ wire = <<>>
    /\ decoded = Null
    /\ NoRun
    /\ NoCall

Marshal ==
    /\ pc = "generated"
    /\ \E T \in DOMAIN typeInfos : \E v \in ValuesOf(typeInfos, T) :
       \E dst \in Buffers :
          /\ recv' = T
          /\ sent' = v
          /\ buffer' = dst
          /\ wire' = MarshalProtobuf(typeInfos, T, v, dst)
    /\ pc' = "encoded"
    /\ UNCHANGED <<tmplVars, input, info, err, typeInfos, decoded, mainVars>>

Unmarshal ==
    /\ pc = "encoded"
    /\ buffer = <<>>
    /\ \E r \in {UnmarshalProtobuf(typeInfos, recv, wire)} :
          /\ decoded' = r.val
          /\ err' = IF r.ok THEN NoErr ELSE <<"cannot unmarshal">>
    /\ pc' = "decoded"
    /\ UNCHANGED <<tmplVars, input, info, typeInfos, recv, sent, buffer, wire, mainVars>>

NextCodec == Marshal \/ Unmarshal

SpecCodec == InitCodec /\ [][NextCodec]_vars

(***************************************************************************)
(* A run of the generator: main reads the directory, locates the requested *)
(* types, generates, formats and writes the output file.                   *)
(***************************************************************************)

\* the most entries of a directory
MaxEntries == 3

\* a directory entry; Suffix is ".go", "_test.go" or another ending
DirEntry == [IsDir |-> TRUE, Suffix |-> "", Package |-> "", Parses |-> TRUE, Decls |-> <<>>]
File(suffix, pkg, parses, decls) ==
    [IsDir |-> FALSE, Suffix |-> suffix, Package |-> pkg, Parses |-> parses, Decls |-> decls]

\* a declaration of a file: a type declaration of a struct or of another
\* type, or a declaration that is no type declaration
StructType(name, list) == [Tok |-> "type", Name |-> name, IsStruct |-> TRUE, List |-> list]
OtherType(name) == [Tok |-> "type", Name |-> name, IsStruct |-> FALSE, List |-> <<>>]
FuncDecl(name) == [Tok |-> "func", Name |-> name, IsStruct |-> FALSE, List |-> <<>>]

\* a struct with a oneof field, declared out of field-number order
EventFields ==
    <<GoField("Seq", Id("int64"), 5),
      [Names |-> <<"Payload">>, Type |-> Interface(0),
       Tag |-> [set |-> TRUE,
                protobuf |-> TagText(Oneof(<<Variant(v_TextMessage, Num(3)),
                                             Variant(v_ImageMessage, Num(2))>>))]],
      GoField("Kind", Id("string"), 1)>>

\* the files a directory may hold
EntryPool ==
    {DirEntry,
     File(".md", "", TRUE, <<>>),
     File("_test.go", "example", TRUE, <<StructType("Fixture", ExampleStructs.User)>>),
     File(".go", "example", TRUE,
          <<FuncDecl("User"), StructType("Message", ExampleStructs.Message),
            StructType("User", ExampleStructs.User), StructType("Event", EventFields)>>),
     File(".go", "example", TRUE,
          <<OtherType("Alias"),
            StructType("Broken", <<GoField("ID", Id("int64"), 0)>>)>>),
     File(".go", "example", FALSE, <<>>),
     File(".go", "other", TRUE, <<StructType("Foreign", ExampleStructs.User)>>),
     File(".go", "other", FALSE, <<>>)}

\* os.ReadDir: the entries of the directory, sorted by filename
RECURSIVE Listings(_)
Listings(n) ==
    IF n = 0 THEN {<<>>}
    ELSE Listings(n - 1) \cup
         {Append(l, e) : l \in {k \in Listings(n - 1) : Len(k) = n - 1}, e \in EntryPool}

NoRepeat(l) == \A i, j \in 1..Len(l) : l[i] = l[j] => i = j

Directories == {l \in Listings(MaxEntries) : NoRepeat(l)}

\* the -type flag after the split at commas and TrimSpace; <<>> when the
\* flag is empty
TypeLists ==
    {<<>>, <<"Message">>, <<"User", "Message">>, <<"Message", "User">>,
     <<"Message", "Foreign">>, <<"Missing", "Message">>, <<"Alias", "Missing">>,
     <<"Message", "Broken">>, <<"Fixture">>, <<"Event", "Message">>}

FlagSets ==
    {[types |-> t, output |-> o, noheader |-> h] :
        t \in TypeLists, o \in {"", "out.go"}, h \in BOOLEAN}

NoFile == [exists |-> FALSE]
FileOf(path, text) == [exists |-> TRUE, path |-> path, text |-> text]

\* the loop over the entries of the directory
RECURSIVE ScanEntries(_, _, _, _)
ScanEntries(list, i, acc, pkg) ==
    IF i > Len(list) THEN [err |-> NoErr, files |-> acc, pkgName |-> pkg]
    ELSE IF list[i].IsDir \/ list[i].Suffix # ".go" THEN ScanEntries(list, i + 1, acc, pkg)
    ELSE IF ~list[i].Parses
         THEN [err |-> <<"failed to parse file">>, files |-> acc, pkgName |-> pkg]
    ELSE IF pkg = "" THEN ScanEntries(list, i + 1, Append(acc, list[i]), list[i].Package)
    ELSE IF list[i].Package # pkg THEN ScanEntries(list, i + 1, acc, pkg)
    ELSE ScanEntries(list, i + 1, Append(acc, list[i]), pkg)

\* the sources main retains, or the error it dies of
ReadSources(list) ==
    IF ScanEntries(list, 1, <<>>, "").err # NoErr THEN ScanEntries(list, 1, <<>>, "")
    ELSE IF Len(ScanEntries(list, 1, <<>>, "").files) = 0
         THEN [err |-> <<"no Go files found">>, files |-> <<>>, pkgName |-> ""]
    ELSE ScanEntries(list, 1, <<>>, "")

\* the loop over the requested names for one type declaration
RECURSIVE MatchTypes(_, _, _, _)
Parsed(spec, names, k, found, r) ==
    IF r.err # NoErr
    THEN [err |-> <<"failed to parse struct", names[k]>> \o r.err, typeInfos |-> found]
    ELSE MatchTypes(spec, names, k + 1, MapPut(found, names[k], r.info[1]))
MatchTypes(spec, names, k, found) ==
    IF k > Len(names) THEN [err |-> NoErr, typeInfos |-> found]
    ELSE IF spec.Name # names[k] THEN MatchTypes(spec, names, k + 1, found)
    ELSE IF ~spec.IsStruct
         THEN [err |-> <<"type", names[k], "is not a struct">>, typeInfos |-> found]
    ELSE Parsed(spec, names, k, found, parseStruct(names[k], spec.List))

\* the loop over the declarations of the retained files
RECURSIVE FindTypes(_, _, _, _, _)
Matched(list, i, j, names, r) ==
    IF r.err # NoErr THEN r ELSE FindTypes(list, i, j + 1, names, r.typeInfos)
FindTypes(list, i, j, names, found) ==
    IF i > Len(list) THEN [err |-> NoErr, typeInfos |-> found]
    ELSE IF j > Len(list[i].Decls) THEN FindTypes(list, i + 1, 1, names, found)
    ELSE IF list[i].Decls[j].Tok # "type" THEN FindTypes(list, i, j + 1, names, found)
    ELSE Matched(list, i, j, names, MatchTypes(list[i].Decls[j], names, 1, found))

\* the first requested name without a descriptor
RECURSIVE CheckFound(_, _, _)

\* CheckFound that looks at the first requested name only
C14m_CheckFound(names, k, found) ==
    IF names = <<>> \/ names[1] \in DOMAIN found THEN NoErr
    ELSE <<"type", names[1], "not found">>

CheckFound(names, k, found) ==
    IF k > Len(names) THEN NoErr
    ELSE IF names[k] \notin DOMAIN found THEN <<"type", names[k], "not found">>
    ELSE CheckFound(names, k + 1, found)

\* a piece of the emitted text
Piece(kw, name, num) == [kw |-> kw, name |-> name, num |-> num]

RECURSIVE EmitVariants(_, _)
EmitVariants(list, i) ==
    IF i > Len(list) THEN <<>>
    ELSE <<Piece("variant", list[i].TypeName, list[i].FieldNum)>> \o EmitVariants(list, i + 1)

RECURSIVE EmitFieldsOf(_, _)
EmitFieldsOf(list, i) ==
    IF i > Len(list) THEN <<>>
    ELSE <<Piece(list[i].ProtoType, list[i].Name, list[i].FieldNum)>>
         \o EmitVariants(list[i].OneofVariants, 1) \o EmitFieldsOf(list, i + 1)

\* the encoder and the decoder of the types of the list, in its order
RECURSIVE EmitTypes(_, _, _)
EmitTypes(list, i, found) ==
    IF i > Len(list) THEN <<>>
    ELSE <<Piece("type", list[i], 0)>> \o EmitFieldsOf(found[list[i]].Fields, 1)
         \o EmitTypes(list, i + 1, found)

\* the template run on its data: the package clause, the header unless it
\* is suppressed, and the routines of .Types in their order; iteration is
\* the order in which the runtime walks the .TypeInfos map
Execute(data, iteration) ==
    <<Piece("package", data.Package, 0)>>
    \o (IF data.SkipHeader THEN <<>> ELSE <<Piece("header", "", 0)>>)
    \o EmitTypes(data.Types, 1, data.TypeInfos)

\* generateCode with its data handed to the template in the .TypeInfos order
C13m_generateCode(pkg, typeNames, found, skipHeader, iteration) ==
    Execute([Package |-> pkg, Types |-> iteration, TypeInfos |-> found,
             SkipHeader |-> skipHeader], iteration)

generateCode(pkg, typeNames, found, skipHeader, iteration) ==
    Execute([Package |-> pkg, Types |-> typeNames, TypeInfos |-> found,
             SkipHeader |-> skipHeader], iteration)

\* the orders in which a map with these keys may be walked
RECURSIVE Orders(_)
Orders(keys) ==
    IF keys = {} THEN {<<>>}
    ELSE UNION {{<<k>> \o o : o \in Orders(keys \ {k})} : k \in keys}

Unformatted(text) == [formatted |-> FALSE, pieces |-> text]
\* format.Source
FormatSource(text) == [formatted |-> TRUE, pieces |-> text.pieces]

\* strings.ToLower on the names requested
ToLower(name) ==
    CASE name = "Message" -> "message"
      [] name = "User" -> "user"
      [] name = "Foreign" -> "foreign"
      [] name = "Fixture" -> "fixture"
      [] name = "Alias" -> "alias"
      [] name = "Broken" -> "broken"
      [] name = "Event" -> "event"
      [] OTHER -> "missing"

\* the path of the output file
OutputPath(fl, pkg) ==
    IF fl.output # "" THEN <<fl.output>>
    ELSE IF Len(fl.types) = 1 THEN <<ToLower(fl.types[1]), "_proto.go">>
    ELSE <<pkg, "_proto.go">>

InitMain ==
    /\ pc = "start"
    /\ input = <<>>
    /\ info = NilInfo
    /\ err = NoErr
    /\ typeInfos = <<>>
    /\ recv = ""
    /\ sent = <<>>
    /\ buffer = <<>>
    /\ wire = <<>>
    /\ decoded = <<>>
    /\ flags \in FlagSets
    /\ entries \in Directories
    /\ files = <<>>
    /\ pkgName = ""
    /\ mapOrder = <<>>
    /\ genText = Unformatted(<<>>)
    /\ outFile = NoFile
    /\ tmpFile = NoFile
    /\ exitCode = -1
    /\ NoCall

\* log.Fatal
Fatal(e) ==
    /\ pc' = "failed"
    /\ err' = e
    /\ exitCode' = 1

\* the flags are read, the directory is listed and its files are parsed
Read ==
    /\ pc = "start"
    /\ \E listed \in BOOLEAN : \E r \in {ReadSources(entries)} :
          IF flags.types = <<>>
          THEN Fatal(<<"-type flag is required">>) /\ UNCHANGED <<files, pkgName>>
          ELSE IF ~listed
          THEN Fatal(<<"failed to read directory">>) /\ UNCHANGED <<files, pkgName>>
          ELSE IF r.err # NoErr
          THEN Fatal(r.err) /\ files' = r.files /\ pkgName' = r.pkgName
          ELSE /\ pc' = "read"
               /\ files' = r.files
               /\ pkgName' = r.pkgName
               /\ UNCHANGED <<err, exitCode>>
    /\ UNCHANGED <<tmplVars, input, info, typeInfos, codecVars, flags, entries, mapOrder, genText,
                   outFile, tmpFile>>

\* the requested types are looked for in the retained files and parsed
Locate ==
    /\ pc = "read"
    /\ \E r \in {FindTypes(files, 1, 1, flags.types, <<>>)} :
          /\ typeInfos' = r.typeInfos
          /\ IF r.err # NoErr THEN Fatal(r.err)
             ELSE pc' = "located" /\ UNCHANGED <<err, exitCode>>
    /\ UNCHANGED <<tmplVars, input, info, codecVars, flags, entries, files, pkgName, mapOrder,
                   genText, outFile, tmpFile>>

\* every requested type must have a descriptor
Check ==
    /\ pc = "located"
    /\ \E e \in {CheckFound(flags.types, 1, typeInfos)} :
          IF e # NoErr THEN Fatal(e)
          ELSE pc' = "found" /\ UNCHANGED <<err, exitCode>>
    /\ UNCHANGED <<tmplVars, input, info, typeInfos, codecVars, flags, entries, files, pkgName,
                   mapOrder, genText, outFile, tmpFile>>

\* generateCode fills the buffer, or the template fails
Generate ==
    /\ pc = "found"
    /\ \E executes \in BOOLEAN : \E iteration \in Orders(DOMAIN typeInfos) :
          /\ mapOrder' = iteration
          /\ IF executes
             THEN /\ genText' = Unformatted(generateCode(pkgName, flags.types, typeInfos,
                                                         flags.noheader, iteration))
                  /\ pc' = "emitted"
                  /\ UNCHANGED <<err, exitCode>>
             ELSE Fatal(<<"failed to generate code">>) /\ UNCHANGED genText
    /\ UNCHANGED <<tmplVars, input, info, typeInfos, codecVars, flags, entries, files, pkgName,
                   outFile, tmpFile>>

\* format.Source; when it fails the buffer goes to a temporary file, if one
\* can be created
Format ==
    /\ pc = "emitted"
    /\ \E formats \in BOOLEAN : \E created \in BOOLEAN :
          IF formats
          THEN /\ genText' = FormatSource(genText)
               /\ pc' = "formatted"
               /\ UNCHANGED <<err, exitCode, tmpFile>>
          ELSE /\ Fatal(<<"failed to format generated code">>)
               /\ tmpFile' = IF created THEN FileOf(<<"protogen_debug_", ".go">>, genText)
                             ELSE tmpFile
               /\ UNCHANGED genText
    /\ UNCHANGED <<tmplVars, input, info, typeInfos, codecVars, flags, entries, files, pkgName,
                   mapOrder, outFile>>

\* a Write that does not wait for the formatter
C15m_Write ==
    /\ pc \in {"emitted", "formatted"}
    /\ outFile' = FileOf(OutputPath(flags, pkgName), genText)
    /\ pc' = "written"
    /\ exitCode' = 0
    /\ UNCHANGED <<tmplVars, input, info, err, typeInfos, codecVars, flags, entries, files, pkgName,
                   mapOrder, genText, tmpFile>>

\* os.WriteFile on the output path; when it fails the file may have been
\* created already
Write ==
    /\ pc = "formatted"
    /\ \E opened \in BOOLEAN : \E written \in BOOLEAN :
          IF opened /\ written
          THEN /\ outFile' = FileOf(OutputPath(flags, pkgName), genText)
               /\ pc' = "written"
               /\ exitCode' = 0
               /\ UNCHANGED err
          ELSE /\ Fatal(<<"failed to write output file">>)
               /\ outFile' = IF opened THEN FileOf(OutputPath(flags, pkgName), Unformatted(<<>>))
                             ELSE outFile
    /\ UNCHANGED <<tmplVars, input, info, typeInfos, codecVars, flags, entries, files, pkgName,
                   mapOrder, genText, tmpFile>>

NextMain == Read \/ Locate \/ Check \/ Generate \/ Format \/ Write

SpecMain == InitMain /\ [][NextMain]_vars

(***************************************************************************)
(* The functions a template calls through the FuncMap of generateCode:     *)
(* each is called with the wire type of a field, in no fixed order, and    *)
(* appendFunc with either value of its second argument.                    *)
(***************************************************************************)

InitTables ==
    /\ pc = "template"
    /\ input = <<>>
    /\ info = NilInfo
    /\ err = NoErr
    /\ typeInfos = <<>>
    /\ recv = ""
    /\ sent = <<>>
    /\ buffer = <<>>
    /\ wire = <<>>
    /\ decoded = <<>>
    /\ NoRun
    /\ tmplType \in WireWords
    /\ tmplNames = NoNames

\* a call whose result is kept under the name of the function
Called(names) ==
    /\ tmplNames' = names
    /\ UNCHANGED <<pc, input, info, err, typeInfos, codecVars, mainVars, tmplType>>

AppendFunc(isRepeated) ==
    /\ tmplNames.appendFunc[isRepeated] = <<>>
    /\ Called([tmplNames EXCEPT !.appendFunc[isRepeated] = <<appendFunc(tmplType, isRepeated)>>])

ReadFunc ==
    /\ tmplNames.readFunc = <<>>
    /\ Called([tmplNames EXCEPT !.readFunc = <<readFunc(tmplType)>>])

UnpackFunc ==
    /\ tmplNames.unpackFunc = <<>>
    /\ Called([tmplNames EXCEPT !.unpackFunc = <<unpackFunc(tmplType)>>])

IsLengthDelimited ==
    /\ tmplNames.isLengthDelimited = <<>>
    /\ Called([tmplNames EXCEPT !.isLengthDelimited = <<isLengthDelimited(tmplType)>>])

NextTables ==
    \/ \E isRepeated \in BOOLEAN : AppendFunc(isRepeated)
    \/ ReadFunc
    \/ UnpackFunc
    \/ IsLengthDelimited

SpecTables == InitTables /\ [][NextTables]_vars

(***************************************************************************)
(* What the properties below read off a run.                               *)
(***************************************************************************)

Done     == pc = "done"
Accepted == Done /\ err = NoErr /\ info # NilInfo
Rejected == Done /\ err # NoErr /\ info = NilInfo

\* the field descriptors returned (none when the struct was rejected)
Fields == IF info = NilInfo THEN <<>> ELSE info[1].Fields

\* the error message contains the phrase
Contains(e, phrase) == \E i \in 1..Len(e) : e[i] = phrase

\* the declaration at position i carries a protobuf tag of the given form
IsOrdinary(i) == input[i].tag.form = "ordinary"
IsOneofForm(i) == input[i].tag.form = "oneof"

\* the parser gets as far as declaration i: the declarations before it are accepted
Reached(i) == parseStruct(TypeName, SubSeq(StructDecl(input), 1, i - 1)).err = NoErr

\* declaration i is accepted when it stands alone in the struct, or fails
\* there only because its own names share its numbers
AloneErr(i) == parseStruct(TypeName, <<FieldDecl(input[i], i)>>).err
NoOtherDefect(e) == e = NoErr \/ Contains(e, "duplicate field number")
SoundAlone(i) == NoOtherDefect(AloneErr(i))

\* the names declaration i gives to descriptors
DeclNames(i) ==
    IF input[i].tag.form \in {"untagged", "nokey"} THEN <<>>
    ELSE IF input[i].nnames = 0 THEN <<getTypeName(input[i].type)>>
    ELSE NamesAt(i, input[i].nnames)

\* the wire numbers the tag of declaration i writes down, in order
RECURSIVE PartNums(_)
PartNums(parts) ==
    IF parts = <<>> THEN <<>>
    ELSE (IF Head(parts).colon /\ Head(parts).num.numeric
          THEN <<Head(parts).num.val>> ELSE <<>>) \o PartNums(Tail(parts))

TagNums(i) ==
    CASE IsOrdinary(i) /\ input[i].tag.num.numeric -> <<input[i].tag.num.val>>
      [] IsOneofForm(i) -> PartNums(input[i].tag.parts)
      [] OTHER -> <<>>

\* the wire numbers of a descriptor, in order
VariantNums(fi) == [k \in 1..Len(fi.OneofVariants) |-> fi.OneofVariants[k].FieldNum]
WireNums(fi) == IF fi.IsOneof THEN VariantNums(fi) ELSE <<fi.FieldNum>>

\* the descriptor with the given name, when there is exactly one
HasField(name) == Cardinality({j \in 1..Len(Fields) : Fields[j].Name = name}) = 1
FieldNamed(name) == Fields[CHOOSE j \in 1..Len(Fields) : Fields[j].Name = name]

(***************************************************************************)
(* C1                                                                      *)
(***************************************************************************)

\* two declarations, or two names or two variants of one declaration, are
\* given the same wire number by the tags as written
TagsCollide ==
    \/ \E i \in 1..Len(input), j \in 1..Len(input) :
          i < j /\ \E a \in 1..Len(TagNums(i)), b \in 1..Len(TagNums(j)) :
                      TagNums(i)[a] = TagNums(j)[b]
    \/ \E i \in 1..Len(input) :
          \/ \E a \in 1..Len(TagNums(i)), b \in 1..Len(TagNums(i)) :
                a < b /\ TagNums(i)[a] = TagNums(i)[b]
          \/ Len(DeclNames(i)) > 1 /\ TagNums(i) # <<>>

\* C1: in every descriptor parseStruct returns, the wire numbers (field
\* numbers of ordinary fields, variant numbers of oneof fields) are pairwise
\* distinct; a struct whose tags collide is rejected, and where the
\* collision is its only defect (each declaration is acceptable alone) the
\* error contains "duplicate field number", in whatever order the colliding
\* declarations stand.
C1_DistinctNumbers ==
    /\ (Done /\ TagsCollide) => Rejected
    /\ Accepted =>
          \A i \in 1..Len(Fields), j \in 1..Len(Fields) :
             \A a \in 1..Len(WireNums(Fields[i])), b \in 1..Len(WireNums(Fields[j])) :
                (i # j \/ a # b) => WireNums(Fields[i])[a] # WireNums(Fields[j])[b]
    /\ (Done /\ TagsCollide /\ \A i \in 1..Len(input) : SoundAlone(i)) =>
          Rejected /\ Contains(err, "duplicate field number")

\* a oneof declared before the ordinary field that takes one of its variant
\* numbers is rejected as a duplicate
C1_Witness ==
    /\ Rejected /\ Contains(err, "duplicate field number")
    /\ Len(input) >= 2
    /\ IsOneofForm(1) /\ IsOrdinary(2)
    /\ \E a \in 1..Len(TagNums(1)) : TagNums(1)[a] = TagNums(2)[1]
    /\ SoundAlone(1) /\ SoundAlone(2)

(***************************************************************************)
(* C2                                                                      *)
(***************************************************************************)

\* the field-number texts the tag of declaration i writes down
RECURSIVE PartToks(_)
PartToks(parts) ==
    IF parts = <<>> THEN {}
    ELSE (IF Head(parts).colon THEN {Head(parts).num} ELSE {}) \cup PartToks(Tail(parts))

TagToks(i) ==
    CASE IsOrdinary(i) /\ TagText(input[i].tag) # <<>> -> {input[i].tag.num}
      [] IsOneofForm(i) -> PartToks(input[i].tag.parts)
      [] OTHER -> {}

InRange(n) == n >= 1 /\ n <= 536870911 /\ ~(n >= 19000 /\ n <= 19999)

\* a struct of one single-name declaration whose tag is just a legal field
\* number, or a oneof with one variant with a legal number, on an eligible type
OneLegalNumber ==
    /\ Len(input) = 1 /\ input[1].nnames = 1
    /\ \/ /\ IsOrdinary(1) /\ input[1].tag.rest = <<>>
          /\ input[1].type = Id("int64")
       \/ /\ IsOneofForm(1) /\ Len(input[1].tag.parts) = 1
          /\ input[1].tag.parts[1].colon
          /\ input[1].type = Id("Message")
    /\ \A tok \in TagToks(1) : LegalNum(tok)

\* C2: a struct with a tag whose field number or variant number is not
\* numeric, below 1, above 536870911 or in 19000..19999 is rejected and no
\* descriptor returned; a tag with a legal number (1, 18999, 20000 and
\* 536870911 among them) is accepted and stores exactly that number; every
\* number of a returned descriptor lies in [1, 536870911] minus [19000, 19999].
C2_FieldNumberRange ==
    /\ (Done /\ \E i \in 1..Len(input) : \E tok \in TagToks(i) : ~LegalNum(tok))
          => Rejected
    /\ (Done /\ OneLegalNumber) =>
          /\ Accepted /\ Len(Fields) = 1
          /\ WireNums(Fields[1]) = TagNums(1)
    /\ Accepted =>
          \A j \in 1..Len(Fields) : \A a \in 1..Len(WireNums(Fields[j])) :
             InRange(WireNums(Fields[j])[a])

\* the largest legal number is stored as the number of a oneof variant
C2_Witness ==
    /\ Accepted /\ OneLegalNumber
    /\ WireNums(Fields[1]) = <<536870911>>
    /\ Fields[1].IsOneof

(***************************************************************************)
(* C3                                                                      *)
(***************************************************************************)

MapKeyTypes ==
    {s_string, s_bool, s_int32, s_int64, s_uint32, s_uint64, s_sint32,
     s_sint64, s_fixed32, s_fixed64, s_sfixed32, s_sfixed64}

\* declaration i is a map field: by the wire type word of its tag, or, with
\* no such word, by its Go type
IsMapDecl(i) ==
    /\ IsOrdinary(i) /\ TagText(input[i].tag) # <<>>
    /\ IF input[i].tag.rest # <<>>
       THEN TrimSpace(input[i].tag.rest[1]) = s_map
       ELSE inferProtoType(input[i].type) = s_map

\* the key wire type of a map declaration: written in the tag when the tag
\* has a key and a value word, else that of the key of the Go map type, else
\* undetermined (empty)
DeclKeyType(i) ==
    IF Len(input[i].tag.rest) >= 3 THEN TrimSpace(input[i].tag.rest[2])
    ELSE IF input[i].type.k = "MapType" THEN inferProtoType(input[i].type.Key)
    ELSE <<>>

\* C3: every returned field with wire type map has a key wire type in the
\* valid map-key set, written in the tag or inferred from the Go map type;
\* a struct with a map field whose key type is any other (float, double,
\* bytes, message, ...) or cannot be determined is rejected.
C3_MapKeyTypes ==
    /\ Accepted =>
          \A j \in 1..Len(Fields) :
             (Fields[j].ProtoType = s_map \/ Fields[j].IsMap) =>
                Fields[j].MapKeyProto \in MapKeyTypes
    /\ Accepted =>
          \A i \in 1..Len(input) :
             IsMapDecl(i) =>
                /\ HasField(DeclNames(i)[1])
                /\ FieldNamed(DeclNames(i)[1]).MapKeyProto = DeclKeyType(i)
    /\ (Done /\ \E i \in 1..Len(input) :
                   IsMapDecl(i) /\ DeclKeyType(i) \notin MapKeyTypes)
          => Rejected

\* a map whose key type is inferred from the Go type is accepted
C3_Witness ==
    /\ Accepted
    /\ \E i \in 1..Len(input) :
          /\ IsMapDecl(i) /\ input[i].tag.rest = <<>>
          /\ input[i].type = MapOf(Id("int"), Star(Id("User")))
          /\ FieldNamed(DeclNames(i)[1]).MapKeyProto = s_int64

(***************************************************************************)
(* C4                                                                      *)
(***************************************************************************)

\* the type shapes of a field that carries a oneof tag
PrimitiveNames ==
    {"string", "bool", "byte", "rune", "int", "int8", "int16", "int32", "int64",
     "uint", "uint8", "uint16", "uint32", "uint64", "float32", "float64",
     "complex64", "complex128", "uintptr"}

IneligibleShape(type) ==
    \/ type.k = "Ident" /\ type.Name \in PrimitiveNames
    \/ type.k \in {"ArrayType", "MapType", "StarExpr", "ChanType", "FuncType"}

EligibleShape(type) ==
    \/ type.k = "Ident" /\ type.Name \notin PrimitiveNames
    \/ type.k \in {"SelectorExpr", "InterfaceType"}

\* the parts k..m of the oneof tag of declaration i are Type:number with legal numbers
PartsLegal(i, m) ==
    \A k \in 1..m : input[i].tag.parts[k].colon /\ LegalNum(input[i].tag.parts[k].num)

PartsDistinct(i, m) ==
    \A k \in 1..m, l \in 1..m :
       k # l => input[i].tag.parts[k].num.val # input[i].tag.parts[l].num.val

\* declaration i has a tag oneof,T1:n1,...,Tk:nk, k >= 1, with legal and distinct numbers
WellFormedOneof(i) ==
    /\ IsOneofForm(i) /\ input[i].tag.parts # <<>>
    /\ PartsLegal(i, Len(input[i].tag.parts))
    /\ PartsDistinct(i, Len(input[i].tag.parts))

\* the variants the tag writes down, in the order written
WrittenVariants(i) ==
    [k \in 1..Len(input[i].tag.parts) |->
        [TypeName |-> TrimSpace(input[i].tag.parts[k].T),
         FieldNum |-> input[i].tag.parts[k].num.val]]

\* C4: a tag oneof,T1:n1,...,Tk:nk with legal, distinct numbers on an
\* eligible field type gives a descriptor with the oneof flag and exactly
\* the variants (Ti, ni) in the order written, each part split at its last
\* colon.
C4_OneofVariants ==
    /\ (Done /\ Len(input) = 1 /\ input[1].nnames = 1 /\ WellFormedOneof(1)
             /\ EligibleShape(input[1].type))
          => Accepted /\ Len(Fields) = 1
    /\ Accepted =>
          \A i \in 1..Len(input) :
             IsOneofForm(i) =>
                \A n \in 1..Len(DeclNames(i)) :
                   /\ HasField(DeclNames(i)[n])
                   /\ FieldNamed(DeclNames(i)[n]).IsOneof
                   /\ FieldNamed(DeclNames(i)[n]).OneofVariants = WrittenVariants(i)

\* a variant whose type name has a colon in it is split at the last colon,
\* in a struct that has a second oneof field
C4_Witness ==
    /\ Accepted
    /\ \E i \in 1..Len(input), j \in 1..Len(input) :
          /\ i # j /\ IsOneofForm(i) /\ IsOneofForm(j)
          /\ FieldNamed(DeclNames(i)[1]).OneofVariants =
                <<[TypeName |-> v_Qualified, FieldNum |-> 2]>>

(***************************************************************************)
(* C5                                                                      *)
(***************************************************************************)

\* a part after the first of the oneof tag of declaration i has no colon
HasBarePart(i) == \E k \in 1..Len(input[i].tag.parts) : ~input[i].tag.parts[k].colon

\* C5: no descriptor is returned for a struct with a oneof tag that has no
\* variant or has a part without a colon; where that tag is the first defect
\* the parser meets, the error contains "at least one variant" for the tag
\* with no variant, and "expected Type:FieldNum format" for the part without
\* a colon (the parts before it being Type:number with legal, distinct
\* numbers).
C5_OneofSyntaxErrors ==
    /\ (Done /\ \E i \in 1..Len(input) :
                   IsOneofForm(i) /\ (input[i].tag.parts = <<>> \/ HasBarePart(i)))
          => Rejected /\ info = NilInfo
    /\ (Done /\ \E i \in 1..Len(input) :
                   /\ IsOneofForm(i) /\ EligibleShape(input[i].type)
                   /\ input[i].tag.parts = <<>> /\ Reached(i))
          => Rejected /\ Contains(err, "at least one variant")
    /\ (Done /\ \E i \in 1..Len(input) :
                   /\ IsOneofForm(i) /\ EligibleShape(input[i].type)
                   /\ \E k \in 1..Len(input[i].tag.parts) :
                         /\ ~input[i].tag.parts[k].colon
                         /\ PartsLegal(i, k - 1) /\ PartsDistinct(i, k - 1)
                   /\ Reached(i))
          => Rejected /\ Contains(err, "expected Type:FieldNum format")

\* the part without a colon comes after a well-formed one, in the last declaration
C5_Witness ==
    /\ Rejected /\ Contains(err, "expected Type:FieldNum format")
    /\ Len(input) >= 2 /\ IsOneofForm(Len(input))
    /\ Len(input[Len(input)].tag.parts) = 2
    /\ ~input[Len(input)].tag.parts[2].colon

(***************************************************************************)
(* C6                                                                      *)
(***************************************************************************)

\* declaration i has a tag that is only a field number, on any or an inline interface
IsBareInterface(i) ==
    /\ IsOrdinary(i) /\ input[i].tag.rest = <<>>
    /\ (input[i].type = Id("any") \/ input[i].type.k = "InterfaceType")

\* C6: a struct with a field whose tag is only a field number and whose Go
\* type is any or an inline interface is rejected; where that field is the
\* first defect the parser meets (its number is legal), the error contains
\* "interface types are not supported"; no returned field has wire type
\* "interface".
C6_InterfaceRejected ==
    /\ (Done /\ \E i \in 1..Len(input) : IsBareInterface(i)) => Rejected
    /\ (Done /\ \E i \in 1..Len(input) :
                   IsBareInterface(i) /\ LegalNum(input[i].tag.num) /\ Reached(i))
          => Rejected /\ Contains(err, "interface types are not supported")
    /\ Accepted => \A j \in 1..Len(Fields) : Fields[j].ProtoType # s_interface

\* an any field is rejected although its number collides with an earlier field's
C6_Witness ==
    /\ Rejected /\ Contains(err, "interface types are not supported")
    /\ Len(input) = 2
    /\ input[1] = FieldSpec(1, Id("int64"), Ordinary(Num(1), <<>>))
    /\ input[2] = FieldSpec(1, Id("any"), Ordinary(Num(1), <<>>))

(***************************************************************************)
(* C7                                                                      *)
(***************************************************************************)

\* C7: a struct with a oneof tag on a primitive identifier, a slice or
\* array, a map, a pointer, a channel or a function is rejected (where the
\* parser meets it, with "oneof tag cannot be used on"); a well-formed oneof
\* tag on any other named type, a qualified name, any or an inline interface
\* is accepted; every returned oneof field has one of these accepted shapes.
C7_OneofFieldTypes ==
    /\ (Done /\ \E i \in 1..Len(input) : IsOneofForm(i) /\ IneligibleShape(input[i].type))
          => Rejected
    /\ (Done /\ \E i \in 1..Len(input) :
                   IsOneofForm(i) /\ IneligibleShape(input[i].type) /\ Reached(i))
          => Contains(err, "oneof tag cannot be used on")
    /\ (Done /\ Len(input) = 1 /\ input[1].nnames = 1 /\ WellFormedOneof(1)
             /\ EligibleShape(input[1].type))
          => Accepted /\ Fields[1].IsOneof
    /\ Accepted =>
          \A j \in 1..Len(Fields) :
             Fields[j].IsOneof =>
                \E i \in 1..Len(input) :
                   /\ \E n \in 1..Len(DeclNames(i)) : DeclNames(i)[n] = Fields[j].Name
                   /\ IsOneofForm(i) /\ EligibleShape(input[i].type)

\* a oneof on an inline interface with methods is accepted
C7_Witness ==
    /\ Accepted
    /\ \E i \in 1..Len(input) :
          /\ IsOneofForm(i) /\ input[i].type = Interface(1)
          /\ FieldNamed(DeclNames(i)[1]).IsOneof

(***************************************************************************)
(* C8                                                                      *)
(***************************************************************************)

\* the names the tagged declarations give, in declaration order
RECURSIVE NamesFrom(_)
NamesFrom(i) == IF i > Len(input) THEN <<>> ELSE DeclNames(i) \o NamesFrom(i + 1)

\* C8: the returned field list is sorted by ascending stored field number
\* (the sentinel for a oneof field) and holds exactly one descriptor per
\* tagged field name, with the number its tag gave, whatever the
\* declaration order.
C8_SortedFields ==
    Accepted =>
       /\ \A j \in 1..(Len(Fields) - 1) : Fields[j].FieldNum <= Fields[j + 1].FieldNum
       /\ Len(Fields) = Len(NamesFrom(1))
       /\ \A i \in 1..Len(input) : \A n \in 1..Len(DeclNames(i)) :
             /\ HasField(DeclNames(i)[n])
             /\ FieldNamed(DeclNames(i)[n]).FieldNum =
                   (IF IsOneofForm(i) THEN -1 ELSE input[i].tag.num.val)

\* three fields declared in descending number order come out reversed
C8_Witness ==
    /\ Accepted /\ Len(Fields) = 3
    /\ Fields[1].Name = NameA[3] /\ Fields[2].Name = NameA[2] /\ Fields[3].Name = NameA[1]
    /\ Fields[1].FieldNum < Fields[2].FieldNum /\ Fields[2].FieldNum < Fields[3].FieldNum

(***************************************************************************)
(* C9                                                                      *)
(***************************************************************************)

WireTypeNames ==
    {s_string, s_bytes, s_int32, s_int64, s_uint32, s_uint64, s_sint32, s_sint64,
     s_bool, s_double, s_float, s_fixed32, s_fixed64, s_sfixed32, s_sfixed64,
     s_message, s_enum, s_map, s_oneof}

\* declaration i has an ordinary tag whose trimmed second part is no wire type
HasUnknownWireType(i) ==
    /\ IsOrdinary(i) /\ input[i].tag.rest # <<>>
    /\ TrimSpace(input[i].tag.rest[1]) \notin WireTypeNames

\* C9: a struct with an ordinary tag whose trimmed second part is not one
\* of the 19 wire types is rejected; where that tag is the first defect the
\* parser meets (its number is legal), the error contains "invalid protobuf
\* type"; every returned field whose wire type came from the tag has that
\* word, one of the 19, as its wire type.
C9_ExplicitWireType ==
    /\ (Done /\ \E i \in 1..Len(input) : HasUnknownWireType(i)) => Rejected
    /\ (Done /\ \E i \in 1..Len(input) :
                   HasUnknownWireType(i) /\ LegalNum(input[i].tag.num) /\ Reached(i))
          => Rejected /\ Contains(err, "invalid protobuf type")
    /\ Accepted =>
          \A i \in 1..Len(input) :
             (IsOrdinary(i) /\ input[i].tag.rest # <<>>) =>
                \A n \in 1..Len(DeclNames(i)) :
                   /\ HasField(DeclNames(i)[n])
                   /\ FieldNamed(DeclNames(i)[n]).ProtoType = TrimSpace(input[i].tag.rest[1])
                   /\ FieldNamed(DeclNames(i)[n]).ProtoType \in WireTypeNames

\* a wire type word in the wrong case is rejected, after an accepted field
C9_Witness ==
    /\ Rejected /\ Contains(err, "invalid protobuf type")
    /\ Len(input) >= 2 /\ Reached(Len(input))
    /\ IsOrdinary(Len(input)) /\ input[Len(input)].tag.rest = <<w_String>>

(***************************************************************************)
(* C10                                                                     *)
(***************************************************************************)

\* C10: for both record families of the repository and every value of a
\* record populated with the fields it declares, unmarshalling the bytes
\* MarshalProtobuf returned into a fresh instance succeeds and gives a value
\* equal to the one marshalled.
C10_RoundTrip ==
    pc = "decoded" => err = NoErr /\ decoded = sent

\* a Message with a negative ID, a long text and a non-null Sender with a
\* long name came back equal
C10_Witness ==
    /\ pc = "decoded" /\ recv = "Message" /\ decoded = sent
    /\ sent.ID = -1 /\ sent.Text = LongText
    /\ sent.Sender # Null /\ sent.Sender.Name = LongText /\ sent.Sender.ID = 999
    /\ Len(wire) > 2 * LongLen

(***************************************************************************)
(* C11                                                                     *)
(***************************************************************************)

Marshalled == pc \in {"encoded", "decoded"}

\* the bytes MarshalProtobuf added to the buffer
Added == SubSeq(wire, Len(buffer) + 1, Len(wire))

\* the field numbers of the fragments of an encoding, in order
RECURSIVE FragmentNums(_, _)
NumsAfter(b, f) == IF ~f.ok THEN <<>> ELSE <<f.num>> \o FragmentNums(b, f.next)
FragmentNums(b, pos) == IF pos > Len(b) THEN <<>> ELSE NumsAfter(b, NextField(b, pos))

\* how many fragments of an encoding carry this field number
Count(nums, n) == Cardinality({k \in 1..Len(nums) : nums[k] = n})

\* the descriptor of the type whose value was marshalled
SentFields == typeInfos[recv].Fields

IsScalarField(fi) == ~fi.IsRepeated /\ ~fi.IsMessage /\ ~fi.IsMap /\ ~fi.IsOneof

\* numeric zero, or the empty string
HasDefault(fi, x) == IF fi.ProtoType \in {s_string, s_bytes} THEN x = <<>> ELSE x = 0

\* every field of the value is zero, empty or null
IsZeroValue(fields, v) ==
    \A i \in 1..Len(fields) :
       IF fields[i].IsMessage THEN v[fields[i].Name] = Null
       ELSE IF fields[i].IsRepeated THEN v[fields[i].Name] = <<>>
       ELSE HasDefault(fields[i], v[fields[i].Name])

\* Message{ID: 100, Text: "Test message"}
IsTestMessage(v) ==
    /\ recv = "Message"
    /\ v.ID = 100 /\ v.Text = TestMessage /\ v.Sender = Null /\ v.Timestamp = 0
    /\ "Tags" \in DOMAIN v => v.Tags = <<>>

\* C11: the bytes MarshalProtobuf adds hold one fragment for a non-repeated
\* scalar field whose value is not the protobuf default and none for one
\* whose value is the default, and none for a null pointer message field;
\* the zero value of a record adds no bytes, and Message{ID: 100, Text:
\* "Test message"} adds exactly 16.
C11_DefaultOmission ==
    Marshalled =>
       /\ \A i \in 1..Len(SentFields) :
             /\ IsScalarField(SentFields[i]) =>
                   Count(FragmentNums(Added, 1), SentFields[i].FieldNum) =
                      (IF HasDefault(SentFields[i], sent[SentFields[i].Name]) THEN 0 ELSE 1)
             /\ (SentFields[i].IsMessage /\ sent[SentFields[i].Name] = Null) =>
                   Count(FragmentNums(Added, 1), SentFields[i].FieldNum) = 0
       /\ IsZeroValue(SentFields, sent) => Added = <<>>
       /\ IsTestMessage(sent) => Len(Added) = 16

\* the 16 bytes of Message{ID: 100, Text: "Test message"}
C11_Witness ==
    /\ Marshalled /\ IsTestMessage(sent) /\ buffer = <<>>
    /\ wire = <<8, 100, 18, 12>> \o TestMessage

(***************************************************************************)
(* C12                                                                     *)
(***************************************************************************)

HasText == genText.pieces # <<>>

\* what the run read off its inputs
SourcesRead == ReadSources(entries)
TypesFound == FindTypes(SourcesRead.files, 1, 1, flags.types, <<>>)

\* the names of the pieces of this keyword, in the order of the text
RECURSIVE NamesOf(_, _)
NamesOf(text, kw) ==
    IF text = <<>> THEN <<>>
    ELSE (IF Head(text).kw = kw THEN <<Head(text).name>> ELSE <<>>) \o NamesOf(Tail(text), kw)

\* the pieces of the type at position i of the list: those that follow its
\* "type" piece up to the next one
RECURSIVE PiecesFrom(_, _)
PiecesFrom(text, i) ==
    IF i > Len(text) \/ text[i].kw = "type" THEN <<>>
    ELSE <<text[i]>> \o PiecesFrom(text, i + 1)

RECURSIVE TypeStart(_, _, _)
TypeStart(text, i, n) ==
    IF i > Len(text) THEN i
    ELSE IF text[i].kw = "type"
         THEN (IF n = 1 THEN i ELSE TypeStart(text, i + 1, n - 1))
    ELSE TypeStart(text, i + 1, n)

PiecesOfType(text, n) == PiecesFrom(text, TypeStart(text, 1, n) + 1)

RECURSIVE NumsOfFields(_)
NumsOfFields(text) ==
    IF text = <<>> THEN <<>>
    ELSE (IF Head(text).kw = "variant" THEN <<>> ELSE <<Head(text).num>>)
         \o NumsOfFields(Tail(text))

Ascending(nums) == \A i, j \in 1..Len(nums) : i < j => nums[i] <= nums[j]

\* the variants of the tag of the Event struct, as written
EventVariants == <<v_TextMessage, v_ImageMessage>>

IsSource(e) == ~e.IsDir /\ e.Suffix = ".go"

RECURSIVE FirstPackage(_, _)
FirstPackage(list, i) ==
    IF i > Len(list) THEN ""
    ELSE IF IsSource(list[i]) THEN list[i].Package
    ELSE FirstPackage(list, i + 1)

\* the source files of the package of the first source file
Retained(e) == IsSource(e) /\ e.Package = FirstPackage(entries, 1)

\* a retained file holds a type declaration of this name
Declared(name) ==
    \E i \in 1..Len(entries) : \E j \in 1..Len(entries[i].Decls) :
       /\ Retained(entries[i])
       /\ entries[i].Decls[j].Tok = "type"
       /\ entries[i].Decls[j].Name = name

MissingAt(k) == k \in 1..Len(flags.types) /\ ~Declared(flags.types[k])

\* nothing stopped the run before it checks that every type was found
ReachesCheck ==
    /\ flags.types # <<>>
    /\ err # <<"failed to read directory">>
    /\ SourcesRead.err = NoErr
    /\ TypesFound.err = NoErr

Started == pc # "start"
Generating == pc \in {"found", "emitted", "formatted", "written"} \/ HasText

\* C14: a run with a requested name that no retained file declares fails,
\* at whatever position of the list the name stands and whatever else was
\* found, and code generation never starts with a requested name that has
\* no descriptor; the diagnostic is "type <name> not found", with the first
\* such name of the list, in the runs that nothing stopped before main
\* checks that every type was found.
C14_MissingType ==
    /\ Generating => \A k \in 1..Len(flags.types) : flags.types[k] \in DOMAIN typeInfos
    /\ \A k \in 1..Len(flags.types) :
          (Started /\ MissingAt(k)) =>
             /\ ~Generating
             /\ pc \in {"read", "located"} \/ (pc = "failed" /\ exitCode = 1)
             /\ (pc = "failed" /\ ReachesCheck /\ \A j \in 1..(k - 1) : ~MissingAt(j)) =>
                   err = <<"type", flags.types[k], "not found">>

\* the second requested type is declared in a file of another package only,
\* the first one was found
C14_Witness ==
    /\ pc = "failed"
    /\ flags.types = <<"Message", "Foreign">>
    /\ "Message" \in DOMAIN typeInfos
    /\ \E i \in 1..Len(entries) : entries[i].Package = "other" /\ entries[i].Parses
    /\ err = <<"type", "Foreign", "not found">>

(***************************************************************************)
(* C15                                                                     *)
(***************************************************************************)

\* the steps of a run, in their order
StepOrder ==
    {<<"start", "read">>, <<"read", "located">>, <<"located", "found">>,
     <<"found", "emitted">>, <<"emitted", "formatted">>, <<"formatted", "written">>}

WriteFailed == pc = "failed" /\ err = <<"failed to write output file">>
FormatFailed == pc = "failed" /\ err = <<"failed to format generated code">>

\* every step before the write has succeeded
AllStepsDone ==
    /\ \A i \in 1..Len(entries) : IsSource(entries[i]) => entries[i].Parses
    /\ SourcesRead.err = NoErr
    /\ TypesFound.err = NoErr
    /\ \A k \in 1..Len(flags.types) :
          /\ flags.types[k] \in DOMAIN typeInfos
          /\ \E i \in 1..Len(files) : \E j \in 1..Len(files[i].Decls) :
                files[i].Decls[j].Name = flags.types[k] /\ files[i].Decls[j].IsStruct
    /\ HasText
    /\ genText.formatted

\* C15: the output file is written at most once, and only by the step that
\* follows the parsing of every source file, the location and parsing of
\* every requested type, the generation and the formatting, which succeed
\* in this order; a run in which one of these steps fails ends with exit
\* status 1 and without an output file, and a temporary file exists only
\* after a formatting failure and holds the unformatted text.
C15_WriteLast ==
    /\ [][/\ pc' # pc => (<<pc, pc'>> \in StepOrder \/ pc' = "failed")
          /\ outFile' # outFile =>
                /\ pc = "formatted" /\ ~outFile.exists
                /\ AllStepsDone]_vars
    /\ [](/\ outFile.exists => (pc = "written" \/ WriteFailed) /\ AllStepsDone
          /\ pc = "failed" => exitCode = 1 /\ (~WriteFailed => ~outFile.exists)
          /\ pc = "written" => exitCode = 0 /\ outFile.exists /\ outFile.text = genText
          /\ tmpFile.exists =>
                /\ FormatFailed /\ ~outFile.exists
                /\ tmpFile.text = genText /\ ~genText.formatted /\ HasText
          /\ pc \notin {"failed", "written"} => exitCode = -1 /\ ~outFile.exists)

\* a run that wrote its output, and one whose formatting failed
C15_Witness ==
    \/ pc = "written" /\ outFile.exists /\ outFile.text.formatted /\ ~tmpFile.exists
       /\ Len(files) = 2
    \/ FormatFailed /\ tmpFile.exists /\ ~outFile.exists /\ exitCode = 1

(***************************************************************************)
(* C16                                                                     *)
(***************************************************************************)

RECURSIVE SelectEntries(_, _)
SelectEntries(list, i) ==
    IF i > Len(list) THEN <<>>
    ELSE (IF Retained(list[i]) THEN <<list[i]>> ELSE <<>>) \o SelectEntries(list, i + 1)

\* the directory without the entries that are not retained
OwnEntries == SelectEntries(entries, 1)

IsForeign(e) == IsSource(e) /\ e.Package # FirstPackage(entries, 1)

\* C16: the type declarations of a run come from the source files of the
\* package of the first source file only, and a source file of another
\* package changes nothing: the run retains the files, and fails or not, as
\* it does on the directory without that file.
C16_ForeignSkipped ==
    (Started /\ flags.types # <<>> /\ err # <<"failed to read directory">>) =>
       /\ \A n \in DOMAIN typeInfos : Declared(n)
       /\ files = ReadSources(OwnEntries).files \/ ReadSources(OwnEntries).err # NoErr
       /\ ReadSources(OwnEntries).err = NoErr => err # <<"failed to parse file">>

\* C16, the part that holds: a source file of another package supplies no
\* type declaration to the run
C16_ForeignSuppliesNothing ==
    Started =>
       /\ \A n \in DOMAIN typeInfos : Declared(n)
       /\ \A i \in 1..Len(files) : files[i].Package = FirstPackage(entries, 1)

\* a run died of a source file of another package that does not parse
C16_Witness ==
    /\ pc = "failed" /\ err = <<"failed to parse file">>
    /\ \E i \in 1..Len(entries) : IsForeign(entries[i]) /\ ~entries[i].Parses
    /\ \A i \in 1..Len(entries) : Retained(entries[i]) => entries[i].Parses
    /\ Len(files) > 0

(***************************************************************************)
(* C17                                                                     *)
(***************************************************************************)

\* the primitive mapping table
IdentWireType ==
    ("string" :> s_string) @@ ("bool" :> s_bool) @@ ("int32" :> s_int32)
    @@ ("int64" :> s_int64) @@ ("int" :> s_int64) @@ ("uint32" :> s_uint32)
    @@ ("uint64" :> s_uint64) @@ ("uint" :> s_uint64) @@ ("float32" :> s_float)
    @@ ("float64" :> s_double) @@ ("byte" :> s_int32) @@ ("any" :> s_interface)

\* the type expressions the table is about
RECURSIVE InTable(_)
InTable(type) ==
    CASE type.k \in {"Ident", "InterfaceType", "SelectorExpr", "MapType"} -> TRUE
      [] type.k = "StarExpr" -> InTable(type.X)
      [] type.k = "ArrayType" -> InTable(type.Elt)
      [] OTHER -> FALSE

\* the wire type the table gives a type expression
RECURSIVE TableWireType(_)
TableWireType(type) ==
    CASE type.k = "Ident" ->
            IF type.Name \in DOMAIN IdentWireType THEN IdentWireType[type.Name]
            ELSE s_message
      [] type.k = "InterfaceType" -> s_interface
      [] type.k = "SelectorExpr" -> s_message
      [] type.k = "StarExpr" -> TableWireType(type.X)
      [] type.k = "ArrayType" ->
            IF type = Slice(Id("byte")) THEN s_bytes ELSE TableWireType(type.Elt)
      [] type.k = "MapType" -> s_map

\* declaration i has an ordinary tag that is a legal field number and
\* nothing else
NumberOnly(i) ==
    /\ IsOrdinary(i) /\ input[i].tag.rest = <<>> /\ LegalNum(input[i].tag.num)
    /\ input[i].nnames = 1

\* C17: a field whose tag is a field number only gets the wire type the
\* table gives its Go type expression: the field is accepted with that wire
\* type, except that the wire type interface is rejected and a map is
\* accepted only with a map key type that is allowed.
C17_InferredWireType ==
    (Done /\ Len(input) = 1 /\ NumberOnly(1) /\ InTable(input[1].type)) =>
       /\ inferProtoType(input[1].type) = TableWireType(input[1].type)
       /\ TableWireType(input[1].type) = s_interface =>
             Rejected /\ Contains(err, "interface types are not supported")
       /\ TableWireType(input[1].type) \notin {s_interface, s_map} => Accepted
       /\ Accepted => Len(Fields) = 1 /\ Fields[1].ProtoType = TableWireType(input[1].type)

\* an array of four bytes was given the wire type of byte
C17_Witness ==
    /\ Accepted /\ Len(input) = 1 /\ NumberOnly(1)
    /\ input[1].type = Array("4", Id("byte"))
    /\ Fields[1].ProtoType = s_int32

(***************************************************************************)
(* C18                                                                     *)
(***************************************************************************)

\* the struct has one field, named once, under an ordinary tag
OneField == Len(input) = 1 /\ IsOrdinary(1) /\ input[1].nnames = 1

\* what classifying the type expression alone produces
Alone(type) == analyzeType(ZeroFieldInfo, type)

\* the descriptor carries the kind flags and the element sub-descriptor of
\* another classification
Carries(fi, other) ==
    /\ other.IsRepeated => fi.IsRepeated
    /\ other.IsSliceOfPtr => fi.IsSliceOfPtr
    /\ other.ElemType # "" =>
          /\ fi.ElemType = other.ElemType
          /\ fi.RawElemType = other.RawElemType
          /\ fi.BaseType = other.BaseType

\* C18: the descriptor of an accepted field whose type is a pointer to T
\* has the pointer and optional flags and carries every kind flag and the
\* element sub-descriptor that classifying T alone produces.
C18_PointerRecurses ==
    (Accepted /\ OneField /\ NumberOnly(1) /\ input[1].type.k = "StarExpr") =>
       /\ Fields[1].IsPointer /\ Fields[1].IsOptional
       /\ Carries(Fields[1], Alone(input[1].type.X))

\* a pointer to a slice of User was classified as a pointer only
C18_Witness ==
    /\ Accepted /\ OneField /\ NumberOnly(1)
    /\ input[1].type = Star(Slice(Id("User")))
    /\ Fields[1].IsPointer /\ Fields[1].IsOptional
    /\ ~Fields[1].IsRepeated /\ Fields[1].ElemType = "[]User"
    /\ Alone(Slice(Id("User"))).IsRepeated /\ Alone(Slice(Id("User"))).ElemType = "User"

(***************************************************************************)
(* C19                                                                     *)
(***************************************************************************)

IsSliceOf(type) == type.k = "ArrayType" /\ type.Len = NilExpr
IsByteSlice(type) == type = Slice(Id("byte"))

\* the explicit wire type of the tag of declaration i (the inferred one
\* when the tag has none), and the option words after it
WireTypeOf(i) ==
    IF input[i].tag.rest = <<>> THEN inferProtoType(input[i].type)
    ELSE TrimSpace(input[i].tag.rest[1])
WordsOf(i) == {TrimSpace(input[i].tag.rest[k]) : k \in 2..Len(input[i].tag.rest)}

\* a slice of another element type is repeated, and a slice of pointers
\* exactly when its element type is a pointer
OtherSliceFlags ==
    (Accepted /\ OneField /\ IsSliceOf(input[1].type) /\ ~IsByteSlice(input[1].type)) =>
       /\ Fields[1].IsRepeated
       /\ Fields[1].IsSliceOfPtr <=> input[1].type.Elt.k = "StarExpr"

Canonical(words) ==
    (IF s_repeated \in words THEN <<s_repeated>> ELSE <<>>)
    \o (IF s_optional \in words THEN <<s_optional>> ELSE <<>>)
    \o (IF s_enum \in words THEN <<s_enum>> ELSE <<>>)
    \o (IF s_custom \in words THEN <<s_custom>> ELSE <<>>)

\* the option words among the parts of the tag from position k on
WordsFrom(i, k) == {TrimSpace(input[i].tag.rest[j]) : j \in k..Len(input[i].tag.rest)}

\* declaration i with the parts of its tag from position k on replaced by
\* the option words that occur among them
Normalised(i, k) ==
    [input[i] EXCEPT !.tag.rest = SubSeq(input[i].tag.rest, 1, k - 1)
                                  \o Canonical(WordsFrom(i, k))]

\* what parseStruct returns for a declaration alone
ResultOf(spec) == parseStruct(TypeName, StructDecl(<<spec>>))

\* the tag names a field number and a wire type
HasWireType(i) ==
    /\ IsOrdinary(i) /\ LegalNum(input[i].tag.num) /\ input[i].nnames = 1
    /\ Len(input[i].tag.rest) >= 1
    /\ isValidProtoType(TrimSpace(input[i].tag.rest[1]))

\* the run returned what parseStruct returns for the declaration with the
\* parts of its tag from position k on normalised, and no error
SameAsNormalised(k) ==
    /\ ResultOf(Normalised(1, k)) = [info |-> info, err |-> err]
    /\ Accepted

\* C20 as stated: with a field number and an explicit wire type, the
\* descriptor depends only on which option words occur among the parts
\* after the wire-type slot, and there is never an error.
C20_OptionsOrderFree ==
    (Done /\ Len(input) = 1 /\ HasWireType(1)) => SameAsNormalised(2)

\* C20: with a field number and an explicit wire type other than map, the
\* descriptor depends only on which option words occur among the parts
\* after the wire-type slot, and there is never an error; with the wire
\* type map and a key and a value slot that the parser accepts, the same
\* holds of the parts after the value slot.
C20_OptionsOrderFreeButMap ==
    (Done /\ Len(input) = 1 /\ HasWireType(1)) =>
       /\ WireTypeOf(1) # s_map => SameAsNormalised(2)
       /\ (WireTypeOf(1) = s_map /\ Len(input[1].tag.rest) >= 3
           /\ isValidMapKeyType(TrimSpace(input[1].tag.rest[2]))) => SameAsNormalised(4)

\* the options custom and repeated were read behind an unknown word, and
\* behind the slots of a map
C20_Witness ==
    /\ Accepted /\ Len(input) = 1 /\ HasWireType(1)
    /\ \/ /\ input[1].tag.rest = <<s_int64, w_bogus, s_custom, s_repeated>>
          /\ Fields[1].IsCustom /\ Fields[1].IsRepeated /\ ~Fields[1].IsOptional
       \/ /\ input[1].tag.rest = <<s_map, s_string, s_int32, s_custom, w_bogus, s_custom>>
          /\ Fields[1].MapValueCustom /\ Fields[1].MapKeyProto = s_string

(***************************************************************************)
(* C21                                                                     *)
(***************************************************************************)

OptionNames == {s_repeated, s_optional, s_enum, s_custom}

\* the tag of declaration i is a legal field number followed by option
\* words only, at least one
OptionsOnly(i) ==
    /\ IsOrdinary(i) /\ LegalNum(input[i].tag.num) /\ input[i].nnames = 1
    /\ Len(input[i].tag.rest) >= 1
    /\ \A k \in 1..Len(input[i].tag.rest) : input[i].tag.rest[k] \in OptionNames

\* the option words of such a tag
AllWords(i) == {input[i].tag.rest[k] : k \in 1..Len(input[i].tag.rest)}

\* C21: a tag that is a field number followed directly by option words is
\* accepted; the wire type is the one inferred from the Go type and the
\* options listed take effect.
C21_WireTypeOptional ==
    (Done /\ Len(input) = 1 /\ OptionsOnly(1)) =>
       /\ Accepted
       /\ Fields[1].ProtoType = inferProtoType(input[1].type)
       /\ Fields[1].IsRepeated <=> s_repeated \in AllWords(1)
       /\ Fields[1].IsOptional <=> s_optional \in AllWords(1)
       /\ Fields[1].IsEnum <=> s_enum \in AllWords(1)
       /\ Fields[1].IsCustom <=> s_custom \in AllWords(1)

\* the tag 1,optional on an int64 field was rejected for its wire type
C21_Witness ==
    /\ Rejected /\ Len(input) = 1 /\ OptionsOnly(1)
    /\ input[1].type = Id("int64")
    /\ input[1].tag.rest = <<s_optional>>
    /\ Contains(err, "invalid protobuf type")

(***************************************************************************)
(* C22                                                                     *)
(***************************************************************************)

\* every wire number of the first descriptor is smaller than every wire
\* number of the second
WiresBelow(f, g) ==
    \A a \in 1..Len(WireNums(f)) : \A b \in 1..Len(WireNums(g)) :
       WireNums(f)[a] < WireNums(g)[b]

\* C22: in a returned descriptor, whenever a field precedes another, every
\* wire number of the first (its field number, or each of its variant
\* numbers when it is a oneof) is smaller than every wire number of the
\* second.
C22_WireOrder ==
    Accepted => \A j \in 1..Len(Fields) : \A k \in 1..Len(Fields) :
                   j < k => WiresBelow(Fields[j], Fields[k])

\* a oneof with the variant numbers 2 and 3 stands before the field with
\* the number 1
C22_Witness ==
    /\ Accepted /\ Len(Fields) = 2
    /\ Fields[1].IsOneof /\ WireNums(Fields[1]) = <<2, 3>>
    /\ ~Fields[2].IsOneof /\ Fields[2].FieldNum = 1

(***************************************************************************)
(* C23                                                                     *)
(***************************************************************************)

\* the tag of declaration i names the wire type map
IsMapTag(i) ==
    /\ IsOrdinary(i) /\ Len(input[i].tag.rest) >= 1
    /\ TrimSpace(input[i].tag.rest[1]) = s_map

\* the tag has at least four parts: the number, map, and two more
HasSlots(i) == Len(input[i].tag.rest) >= 3

\* the option words of a map tag
MapWords(i) == IF HasSlots(i) THEN WordsFrom(i, 4) ELSE WordsFrom(i, 2)

\* C23: for an accepted field with the explicit wire type map, the key and
\* value wire types are the trimmed third and fourth part of a tag of at
\* least four parts, with the options read from the fifth part on, and
\* are inferred from the key and value expressions of the Go map type
\* otherwise, with the options read from the third part on; the value is a
\* message exactly when the value wire type is message, and the option
\* custom sets the custom flag of the value.
C23_MapSlots ==
    (Accepted /\ OneField /\ IsMapTag(1)) =>
       /\ Fields[1].IsMap /\ Fields[1].ProtoType = s_map
       /\ HasSlots(1) =>
             /\ Fields[1].MapKeyProto = TrimSpace(input[1].tag.rest[2])
             /\ Fields[1].MapValueProto = TrimSpace(input[1].tag.rest[3])
       /\ ~HasSlots(1) =>
             /\ input[1].type.k = "MapType"
             /\ Fields[1].MapKeyProto = inferProtoType(input[1].type.Key)
             /\ Fields[1].MapValueProto = inferProtoType(input[1].type.Value)
       /\ Fields[1].MapValueIsMsg <=> Fields[1].MapValueProto = s_message
       /\ Fields[1].MapValueCustom <=> s_custom \in MapWords(1)
       /\ Fields[1].IsCustom <=> s_custom \in MapWords(1)
       /\ Fields[1].IsRepeated <=> s_repeated \in MapWords(1)
       /\ Fields[1].IsOptional <=> s_optional \in MapWords(1)

\* the slots of the tag overrode the Go type, and a tag without slots took
\* the types of the Go map
C23_Witness ==
    /\ Accepted /\ OneField /\ IsMapTag(1)
    /\ \/ /\ input[1].type = MapOf(Id("string"), Id("int32"))
          /\ input[1].tag.rest = <<s_map, w_padded, s_message, s_custom>>
          /\ Fields[1].MapKeyProto = s_sint64 /\ Fields[1].MapValueIsMsg
          /\ Fields[1].MapValueCustom
       \/ /\ input[1].type = MapOf(Id("int"), Star(Id("User")))
          /\ input[1].tag.rest = <<s_map, s_custom>>
          /\ Fields[1].MapKeyProto = s_int64 /\ Fields[1].MapValueIsMsg
          /\ Fields[1].MapValueCustom /\ Fields[1].MapValueIsPtr

(***************************************************************************)
(* C24                                                                     *)
(***************************************************************************)

\* the bare type name of a type expression: the identifier, the selected
\* name, the same behind pointers; none for another expression
RECURSIVE BareName(_)
BareName(type) ==
    CASE type.k = "Ident" -> type.Name
      [] type.k = "SelectorExpr" -> type.Sel
      [] type.k = "StarExpr" -> BareName(type.X)
      [] OTHER -> ""

\* declaration i is an embedded field under a protobuf tag
IsEmbedded(i) == input[i].nnames = 0 /\ (IsOrdinary(i) \/ IsOneofForm(i))

\* the declaration is accepted when it is given a name
SoundWhenNamed(i) == ResultOf([input[i] EXCEPT !.nnames = 1]).err = NoErr

\* C24: an embedded tagged field is named by the bare type name of its
\* type expression; when there is none the struct is rejected, with "cannot
\* determine name for embedded field" when nothing else is wrong with the
\* declaration, and no field with an empty name is returned.
C24_EmbeddedName ==
    (Done /\ Len(input) = 1 /\ IsEmbedded(1)) =>
       /\ Accepted => /\ Len(Fields) = 1
                      /\ Fields[1].Name = BareName(input[1].type)
                      /\ Fields[1].Name # ""
       /\ BareName(input[1].type) = "" => Rejected
       /\ SoundWhenNamed(1) =>
             IF BareName(input[1].type) = ""
             THEN Contains(err, "cannot determine name for embedded field")
             ELSE Accepted

\* an embedded pointer to a type of another package got the selected name,
\* and an embedded slice was rejected
C24_Witness ==
    /\ Done /\ Len(input) = 1 /\ IsEmbedded(1)
    /\ \/ /\ input[1].type = Star(Sel("pkg", "User"))
          /\ Accepted /\ Fields[1].Name = "User"
       \/ /\ input[1].type = Slice(Id("User"))
          /\ Rejected /\ Contains(err, "cannot determine name for embedded field")

(***************************************************************************)
(* C25                                                                     *)
(***************************************************************************)

\* C25: for every field of a returned descriptor these are equivalent: the
\* oneof flag is set, the stored field number is the sentinel, the variant
\* list is not empty, the wire type is oneof.
C25_OneofMarks ==
    Accepted => \A j \in 1..Len(Fields) :
       /\ Fields[j].IsOneof <=> Fields[j].FieldNum = OneofSentinel
       /\ Fields[j].IsOneof <=> Fields[j].OneofVariants # <<>>
       /\ Fields[j].IsOneof <=> Fields[j].ProtoType = s_oneof

\* a field under the ordinary tag 1,oneof has the wire type oneof, a real
\* field number and no variants
C25_Witness ==
    /\ Accepted
    /\ \E i \in 1..Len(input) :
          IsOrdinary(i) /\ input[i].tag.rest = <<s_oneof>> /\ input[i].tag.num = Num(1)
    /\ \E j \in 1..Len(Fields) :
          /\ Fields[j].ProtoType = s_oneof /\ ~Fields[j].IsOneof
          /\ Fields[j].FieldNum = 1 /\ Fields[j].OneofVariants = <<>>

(***************************************************************************)
(* C26                                                                     *)
(***************************************************************************)

\* declaration i lists more than one name under a protobuf tag
MultiName(i) == input[i].nnames > 1 /\ (IsOrdinary(i) \/ IsOneofForm(i))

\* the descriptors that carry a name of declaration i
FieldsOf(i) ==
    {j \in 1..Len(Fields) :
        \E n \in 1..input[i].nnames : Fields[j].Name = NamesAt(i, input[i].nnames)[n]}

\* C26: a struct with a declaration of several names under one protobuf
\* tag is rejected, with "duplicate field number" when the parser gets as
\* far as that declaration and the declaration is accepted with one name;
\* no returned descriptor has two fields of one declaration.
C26_MultiNameRejected ==
    /\ Done => \A i \in 1..Len(input) :
          MultiName(i) =>
             /\ Rejected
             /\ (SoundWhenNamed(i) /\ Reached(i)) => Contains(err, "duplicate field number")
    /\ Accepted => \A i \in 1..Len(input) : Cardinality(FieldsOf(i)) <= 1

\* two names under the tag 1, and two names under a oneof tag, behind an
\* accepted field
C26_Witness ==
    /\ Rejected /\ Len(input) = 2 /\ MultiName(2) /\ ~MultiName(1)
    /\ SoundWhenNamed(2) /\ Reached(2)
    /\ Contains(err, "duplicate field number")

(***************************************************************************)
(* C27                                                                     *)
(***************************************************************************)

\* every function of the tables was called with the wire type
AllCalled ==
    /\ \A r \in BOOLEAN : tmplNames.appendFunc[r] # <<>>
    /\ tmplNames.readFunc # <<>> /\ tmplNames.unpackFunc # <<>>
    /\ tmplNames.isLengthDelimited # <<>>

AppendMany == tmplNames.appendFunc[TRUE][1]
AppendOne  == tmplNames.appendFunc[FALSE][1]
ReadName   == tmplNames.readFunc[1]
UnpackName == tmplNames.unpackFunc[1]
Delimited  == tmplNames.isLengthDelimited[1]

\* the scalar kinds of the runtime facade that have a packed form
PackedKinds ==
    {"Int32", "Int64", "Uint32", "Uint64", "Sint32", "Sint64", "Bool", "Double",
     "Float", "Fixed32", "Fixed64", "Sfixed32", "Sfixed64"}

\* a name of the form <prefix><X>s
IsPackedName(prefix, name) == \E X \in PackedKinds : name = prefix \o X \o "s"

\* the statement as given: unpackFunc names a packed unpack exactly when
\* appendFunc(t, true) names a packed append, then both are built on the
\* name of readFunc(t); every other wire type appends alike for both values
\* of the repeated argument and unpacks and reads with Bytes; string and
\* bytes alone are length-delimited.
C27_TablesConsistent ==
    AllCalled =>
       /\ IsPackedName("Unpack", UnpackName) <=> IsPackedName("Append", AppendMany)
       /\ IsPackedName("Unpack", UnpackName) =>
             /\ UnpackName = "Unpack" \o ReadName \o "s"
             /\ AppendMany = "Append" \o ReadName \o "s"
             /\ AppendOne = "Append" \o ReadName
       /\ ~IsPackedName("Unpack", UnpackName) =>
             /\ AppendMany = AppendOne
             /\ UnpackName = "Bytes"
             /\ ReadName = "Bytes"
       /\ Delimited <=> tmplType \in {s_string, s_bytes}

\* C27: unpackFunc(t) names a packed unpack "Unpack<X>s" exactly when
\* appendFunc(t, true) names a packed append "Append<X>s" or t is enum; then
\* X is the name readFunc(t) returns and appendFunc(t, false) is
\* "Append<X>", and for enum appendFunc(t, true) is "AppendInt32" as well.
\* For every other t appendFunc returns the same name for both values of
\* the repeated argument and unpackFunc returns "Bytes"; readFunc returns
\* "Bytes" too, except for string, where it returns "String".
\* isLengthDelimited is true exactly for string and bytes.
C27_TablesAgree ==
    AllCalled =>
       /\ IsPackedName("Unpack", UnpackName)
             <=> (IsPackedName("Append", AppendMany) \/ tmplType = s_enum)
       /\ IsPackedName("Unpack", UnpackName) =>
             /\ UnpackName = "Unpack" \o ReadName \o "s"
             /\ AppendOne = "Append" \o ReadName
             /\ AppendMany = IF tmplType = s_enum THEN AppendOne
                             ELSE "Append" \o ReadName \o "s"
       /\ ~IsPackedName("Unpack", UnpackName) =>
             /\ AppendMany = AppendOne
             /\ UnpackName = "Bytes"
             /\ ReadName = IF tmplType = s_string THEN "String" ELSE "Bytes"
       /\ Delimited <=> tmplType \in {s_string, s_bytes}

\* the names for enum: a packed unpack beside the append of one value
C27_Witness ==
    /\ AllCalled /\ tmplType = s_enum
    /\ UnpackName = "UnpackInt32s" /\ ReadName = "Int32"
    /\ AppendMany = "AppendInt32" /\ AppendOne = "AppendInt32"
    /\ ~Delimited

====
